---- MODULE Spec2Model ----
(***************************************************************************)
(* A model of the sui-network-sdk crate: the WebSocket listener            *)
(* (src/src/listener.rs), the transaction pipeline (src/src/trade.rs),     *)
(* the JSON-RPC transport (src/src/lib.rs) and key custody                 *)
(* (src/src/wallet.rs).  Each component has its own specification over its *)
(* own variables; the variables of the other components stay at their      *)
(* initial values.                                                         *)
(***************************************************************************)
EXTENDS Integers, Sequences, FiniteSets, TLC

VARIABLES
    \* ---- listener.rs: one listen_* call
    lkind,      \* which of the three listen operations is running
    lpc,        \* position of the call
    conns,      \* number of connections opened (connect_async successes)
    sent,       \* messages written to the socket, in order
    received,   \* items read.next() has yielded so far, in order
    cbArg,      \* argument of the callback invocation in progress
    calls,      \* arguments of the completed callback invocations, in order
    lret,       \* the call's return value, once it has returned
    \* ---- wallet.rs: the Wallet the caller holds
    wallet,     \* None, or Some(the Wallet)
    wres,       \* the last Wallet operation: its name, inputs and output
    \* ---- wallet.rs: the Keystore the caller holds
    keystore,   \* [keys |-> address -> secret]
    kres,       \* the last Keystore operation: its name, inputs and output
    kfile,      \* the file at the keystore's path: None, or Some(its content)
    \* ---- trade.rs: the Trade the caller holds and one pipeline call on it
    trade,      \* [gas_payment, gas_budget] (client and wallet are fixed references)
    tpc,        \* position of the pipeline call
    tcall,      \* the pipeline operation called, with its arguments
    tfee,       \* the local gas_payment of the call: what get_gas_payment returned
    trpc,       \* the JSON-RPC requests the call has posted, in order
    tresp,      \* for each answered request, the node's response and request()'s outcome
    tret,       \* the call's return value, once it has returned
    tsigned,    \* the messages the call has handed to wallet.sign, in order
    \* ---- lib.rs: the caller's exe_transaction of what the pipeline returned
    xreq,       \* None, or Some(the JSON-RPC request exe_transaction posted)
    xresp,      \* None, or Some(the node's answer to it)
    xret,       \* None, or Some(what exe_transaction returned)
    \* ---- trade.rs: one Trade and two pipeline calls that borrow it
    shared,     \* [gas_payment, gas_budget] of the Trade both calls run on
    tasks       \* for each caller, its call: position, operation, requests, answers, result

lvars == <<lkind, lpc, conns, sent, received, cbArg, calls, lret>>
wvars == <<wallet, wres>>
kvars == <<keystore, kres, kfile>>

tvars == <<trade, tpc, tcall, tfee, trpc, tresp, tret, tsigned, xreq, xresp, xret>>

pvars == <<shared, tasks>>

vars == <<lvars, wvars, kvars, tvars, pvars>>

notListen == <<wvars, kvars, tvars, pvars>>
notWallet == <<lvars, kvars, tvars, pvars>>
notKeystore == <<lvars, wvars, tvars, pvars>>
notTrade == <<lvars, wvars, kvars, pvars>>
notTwoCalls == <<lvars, wvars, kvars, tvars>>

(***************************************************************************)
(* Option and Result values.                                               *)
(***************************************************************************)
None == [some |-> FALSE]
Some(x) == [some |-> TRUE, val |-> x]

Ok(x) == [ok |-> TRUE, val |-> x]
Err(kind, msg) == [ok |-> FALSE, kind |-> kind, msg |-> msg]

Unit == "()"

(***************************************************************************)
(* serde_json::Value, and the two accessors the listener uses.             *)
(***************************************************************************)
JStr(s) == [kind |-> "str", str |-> s]
JNum(n) == [kind |-> "num", num |-> n]
JObj(f) == [kind |-> "obj", fields |-> f]
JArr(a) == [kind |-> "arr", items |-> a]
JNull == [kind |-> "null"]

\* Value::get(&str): Some(member) on an object that has the key, else None.
ValueGet(v, key) ==
    IF v.kind = "obj" /\ key \in DOMAIN v.fields
    THEN Some(v.fields[key])
    ELSE None

\* Value::as_str(): Some(s) on a string, else None.
ValueAsStr(v) == IF v.kind = "str" THEN Some(v.str) ELSE None

\* o.and_then(|v| v.get(key))
AndThenGet(o, key) == IF o.some THEN ValueGet(o.val, key) ELSE None

\* o.and_then(|v| v.as_str())
AndThenAsStr(o) == IF o.some THEN ValueAsStr(o.val) ELSE None

(***************************************************************************)
(* Bytes, SHA3-256 and hex.                                                *)
(*                                                                         *)
(* A byte string is a sequence over 0..255.  Sha3_256 stands in for the    *)
(* sha3 crate's digest: a deterministic function of the whole input that   *)
(* yields 32 bytes.  It is not SHA3; nothing below rests on more than its  *)
(* being a fixed function with 32-byte output.                             *)
(***************************************************************************)
KEY_LEN == 32
SIG_LEN == 64

\* Recursions over a byte string split it in halves, which keeps them shallow.

Weight(i) == (7 * i * i + 131 * i + 1) % 65521

RECURSIVE WeightedSum(_, _, _)
WeightedSum(m, lo, hi) ==
    IF lo > hi THEN 0
    ELSE IF lo = hi THEN ((m[lo] + 1) * Weight(lo)) % 65521
    ELSE (WeightedSum(m, lo, (lo + hi) \div 2)
          + WeightedSum(m, ((lo + hi) \div 2) + 1, hi)) % 65521

\* the digest state after absorbing m: every byte counts, with its position
Absorb(tag, m) == (2654 * tag + WeightedSum(m, 1, Len(m))) % 65521

RECURSIVE Squeeze(_, _, _)
\* output bytes lo..hi of the digest state h
Squeeze(h, lo, hi) ==
    IF lo = hi THEN <<((h + lo) * (2 * lo + 1) + (h \div 256) * lo) % 256>>
    ELSE Squeeze(h, lo, (lo + hi) \div 2) \o Squeeze(h, ((lo + hi) \div 2) + 1, hi)

\* hasher.update(m); hasher.finalize()
Sha3_256(m) == Squeeze(Absorb(Len(m) + 7, m), 1, KEY_LEN)

HexDigits == <<"0", "1", "2", "3", "4", "5", "6", "7",
               "8", "9", "a", "b", "c", "d", "e", "f">>

RECURSIVE HexRange(_, _, _)
HexRange(bytes, lo, hi) ==
    IF lo > hi THEN ""
    ELSE IF lo = hi
    THEN HexDigits[(bytes[lo] \div 16) + 1] \o HexDigits[(bytes[lo] % 16) + 1]
    ELSE HexRange(bytes, lo, (lo + hi) \div 2)
         \o HexRange(bytes, ((lo + hi) \div 2) + 1, hi)

\* hex::encode
hex_encode(bytes) == HexRange(bytes, 1, Len(bytes))

(***************************************************************************)
(* ed25519_dalek, scaled down: the twisted Edwards curve                   *)
(* -x^2 + y^2 = 1 + d x^2 y^2 over the prime field of FieldPrime elements, *)
(* whose group has 8 * GroupOrder points, in place of the curve over       *)
(* 2^255 - 19.  Encodings keep their real widths: a point is 32 bytes (y   *)
(* little-endian, the sign of x in the top bit), a signature is R (32      *)
(* bytes) followed by s (32 bytes little-endian).                          *)
(***************************************************************************)
FieldPrime == 109
CurveD == 11
GroupOrder == 13
BasePoint == <<64, 38>>
Identity == <<0, 1>>

FInv(a) == CHOOSE z \in 1..(FieldPrime - 1) : (z * (a % FieldPrime)) % FieldPrime = 1

PointAdd(p1, p2) ==
    LET t == (CurveD * ((p1[1] * p2[1]) % FieldPrime) * ((p1[2] * p2[2]) % FieldPrime))
                % FieldPrime
        xn == (p1[1] * p2[2] + p1[2] * p2[1]) % FieldPrime
        yn == (p1[2] * p2[2] + p1[1] * p2[1]) % FieldPrime
    IN  <<(xn * FInv(1 + t)) % FieldPrime,
          (yn * FInv(FieldPrime + 1 - t)) % FieldPrime>>

PointNeg(p1) == <<(FieldPrime - p1[1]) % FieldPrime, p1[2]>>

PointDouble(p1) == PointAdd(p1, p1)

RECURSIVE ScalarMul(_, _)
ScalarMul(k, p1) ==
    IF k = 0 THEN Identity
    ELSE IF k % 2 = 0 THEN PointDouble(ScalarMul(k \div 2, p1))
    ELSE PointAdd(p1, ScalarMul(k - 1, p1))

RECURSIVE Pow256(_, _)
\* 256^e modulo m
Pow256(e, m) ==
    IF e = 0 THEN 1 % m
    ELSE IF e % 2 = 0 THEN (Pow256(e \div 2, m) * Pow256(e \div 2, m)) % m
    ELSE (256 * Pow256(e - 1, m)) % m

RECURSIVE LeRange(_, _, _, _)
LeRange(bytes, lo, hi, m) ==
    IF lo > hi THEN 0
    ELSE IF lo = hi THEN (bytes[lo] * Pow256(lo - 1, m)) % m
    ELSE (LeRange(bytes, lo, (lo + hi) \div 2, m)
          + LeRange(bytes, ((lo + hi) \div 2) + 1, hi, m)) % m

\* the little-endian integer of bytes, modulo m
LeMod(bytes, m) == LeRange(bytes, 1, Len(bytes), m)

\* CompressedEdwardsY::decompress: the point with this y and this sign of x,
\* or None when no x satisfies the curve equation.
Decompress(bytes) ==
    LET y == LeMod(SubSeq(bytes, 1, KEY_LEN - 1) \o <<bytes[KEY_LEN] % 128>>, FieldPrime)
        sign == bytes[KEY_LEN] \div 128
        u == (y * y + FieldPrime - 1) % FieldPrime
        v == (CurveD * y * y + 1) % FieldPrime
        roots == {r \in 0..(FieldPrime - 1) : (v * r * r) % FieldPrime = u}
    IN  IF roots = {} THEN None
        ELSE Some(<<CHOOSE c \in roots : c % 2 = sign \/ \A e \in roots : e % 2 # sign,
                    y>>)

RECURSIVE Zeros(_)
Zeros(n) ==
    IF n = 0 THEN <<>>
    ELSE IF n = 1 THEN <<0>>
    ELSE Zeros(n \div 2) \o Zeros(n - (n \div 2))

\* the 32-byte encoding of a point, and of a scalar
Compress(pt) == <<pt[2]>> \o Zeros(KEY_LEN - 2) \o <<128 * (pt[1] % 2)>>
ScalarBytes(k) == <<k>> \o Zeros(KEY_LEN - 1)

IsSmallOrder(pt) == ScalarMul(8, pt) = Identity

\* the challenge scalar: a digest of R || A || M, reduced modulo the group order
Challenge(rBytes, aBytes, message) ==
    Absorb(Len(message) + 11, rBytes \o aBytes \o message) % GroupOrder

\* VerifyingKey::from_bytes: Err when the bytes do not decompress to a point
VerifyingKey_from_bytes(bytes) ==
    LET pt == Decompress(bytes)
    IN  IF pt.some THEN Ok([bytes |-> bytes, point |-> pt.val])
        ELSE Err("SignatureError", "Cannot decompress Edwards point")

\* VerifyingKey::verify_strict(message, &signature): the scalar s is canonical
\* (here: below 2^252, then taken modulo the group order), neither A nor R is of
\* small order, R decompresses, and [s]B = R + [k]A.
verify_strict(key, message, signature) ==
    LET rBytes == SubSeq(signature, 1, KEY_LEN)
        sBytes == SubSeq(signature, KEY_LEN + 1, SIG_LEN)
        rPt == Decompress(rBytes)
        s == LeMod(sBytes, GroupOrder)
        k == Challenge(rBytes, key.bytes, message)
    IN  /\ sBytes[KEY_LEN] < 16
        /\ ~IsSmallOrder(key.point)
        /\ rPt.some
        /\ ~IsSmallOrder(rPt.val)
        /\ PointAdd(ScalarMul(s, BasePoint), ScalarMul(k, PointNeg(key.point))) = rPt.val

(***************************************************************************)
(* wallet.rs: Ed25519KeyPair and Wallet.                                   *)
(***************************************************************************)
\* Ed25519KeyPair::create_public_key
create_public_key(private_key) == Sha3_256(private_key)

\* Ed25519KeyPair::generate, for the 32 bytes the random source produced
generate(random) ==
    Ok([private_key |-> random, public_key |-> create_public_key(random)])

\* from_private_key, with a longer slice cut to its first 32 bytes.
KeyPair_from_private_key_Truncating(private_key) ==
    IF Len(private_key) < KEY_LEN THEN Err("InvalidPrivateKey", "")
    ELSE Ok([private_key |-> SubSeq(private_key, 1, KEY_LEN),
             public_key |-> create_public_key(SubSeq(private_key, 1, KEY_LEN))])

\* Ed25519KeyPair::from_private_key
KeyPair_from_private_key(private_key) ==
    IF Len(private_key) # KEY_LEN THEN Err("InvalidPrivateKey", "")
    ELSE Ok([private_key |-> private_key,
             public_key |-> create_public_key(private_key)])

\* sign, with the private key hashed together with the message.
KeyPair_sign_KeyedHash(keypair, message) ==
    SubSeq(SubSeq(keypair.private_key, 1, KEY_LEN)
               \o SubSeq(Sha3_256(keypair.private_key \o message), 1, KEY_LEN),
           1, SIG_LEN)

\* Ed25519KeyPair::sign
KeyPair_sign(keypair, message) ==
    SubSeq(SubSeq(keypair.private_key, 1, KEY_LEN) \o SubSeq(Sha3_256(message), 1, KEY_LEN),
           1, SIG_LEN)

\* Wallet::address_from_public_key_bytes
address_from_public_key_bytes(public_key) ==
    "0x" \o hex_encode(SubSeq(Sha3_256(public_key), 1, KEY_LEN))

\* Wallet::new, for the 32 bytes the random source produced
Wallet_new(random) ==
    LET keypair == generate(random)
    IN  IF ~keypair.ok THEN keypair
        ELSE Ok([address |-> address_from_public_key_bytes(keypair.val.public_key),
                 keypair |-> keypair.val])

\* Wallet::from_private_key
Wallet_from_private_key(private_key) ==
    LET keypair == KeyPair_from_private_key(private_key)
    IN  IF ~keypair.ok THEN keypair
        ELSE Ok([address |-> address_from_public_key_bytes(keypair.val.public_key),
                 keypair |-> keypair.val])

\* Wallet::sign
Wallet_sign(w, message) == KeyPair_sign(w.keypair, message)

\* Wallet::get_public_key_bytes
get_public_key_bytes(w) == w.keypair.public_key

\* Wallet::verify_signature
verify_signature(w, message, signature) ==
    LET public_key_bytes == get_public_key_bytes(w)
    IN  IF Len(signature) # SIG_LEN
        THEN Err("Sign", "The signature byte length does not meet the requirement, Requires 32 bytes.")
        ELSE IF Len(public_key_bytes) # KEY_LEN
        THEN Err("Sign", "The public key byte length does not meet the requirement, Requires 32 bytes.")
        ELSE LET verifying_key == VerifyingKey_from_bytes(public_key_bytes)
             IN  IF ~verifying_key.ok
                 THEN Err("Sign", "Invalid public key format: " \o verifying_key.msg)
                 ELSE IF verify_strict(verifying_key.val, message, signature)
                      THEN Ok(TRUE)
                      ELSE Ok(FALSE)

\* impl Debug for Ed25519KeyPair (wallet.rs:60-67)
Debug_Ed25519KeyPair(keypair) ==
    "Ed25519KeyPair { private_key: \"***HIDDEN***\", public_key: \""
    \o hex_encode(keypair.public_key) \o "\" }"

\* #[derive(Debug)] on Wallet (wallet.rs:126-130)
Debug_Wallet(w) ==
    "Wallet { address: \"" \o w.address \o "\", keypair: "
    \o Debug_Ed25519KeyPair(w.keypair) \o " }"

(***************************************************************************)
(* wallet.rs: Keystore, a HashMap from address to secret.                  *)
(***************************************************************************)
\* Keystore::new
Keystore_new == [keys |-> <<>>]

\* HashMap::insert, with an occupied entry left as it is.
add_key_KeepExisting(ks, address, private_key) ==
    [keys |-> [a \in (DOMAIN ks.keys) \cup {address} |->
                IF a \in DOMAIN ks.keys THEN ks.keys[a] ELSE private_key]]

\* Keystore::add_key: HashMap::insert
add_key(ks, address, private_key) ==
    [keys |-> [a \in (DOMAIN ks.keys) \cup {address} |->
                IF a = address THEN private_key ELSE ks.keys[a]]]

\* Keystore::get_key: HashMap::get
get_key(ks, address) ==
    IF address \in DOMAIN ks.keys THEN Some(ks.keys[address]) ELSE None

\* Keystore::remove_key: HashMap::remove; the keystore afterwards
remove_key(ks, address) ==
    [keys |-> [a \in (DOMAIN ks.keys) \ {address} |-> ks.keys[a]]]

\* Keystore::len
Keystore_len(ks) == Cardinality(DOMAIN ks.keys)

\* Keystore::is_empty
is_empty(ks) == DOMAIN ks.keys = {}

\* the orders in which a HashMap may iterate over its keys
IterationOrders(ks) ==
    {o \in [1..Cardinality(DOMAIN ks.keys) -> DOMAIN ks.keys] :
        \A i, j \in DOMAIN o : i # j => o[i] # o[j]}

\* Keystore::list_addresses, for an iteration order
list_addresses(ks, order) == order

RECURSIVE DebugEntries(_, _, _)
DebugEntries(ks, order, i) ==
    IF i > Len(order) THEN ""
    ELSE (IF i > 1 THEN ", " ELSE "")
         \o "\"" \o order[i] \o "\": \"" \o ks.keys[order[i]] \o "\""
         \o DebugEntries(ks, order, i + 1)

\* #[derive(Debug)] on Keystore (wallet.rs:13-16): the map is printed, entry by
\* entry, in iteration order
Debug_Keystore(ks, order) ==
    "Keystore { keys: {" \o DebugEntries(ks, order, 1) \o "} }"

(***************************************************************************)
(* Inbound text payloads, and what serde_json::from_str makes of each.     *)
(***************************************************************************)
TxNotification(d) ==
    JObj([jsonrpc |-> JStr("2.0"),
          method |-> JStr("sui_subscribeTransaction"),
          params |-> JObj([subscription |-> JNum(7),
                           result |-> JObj([digest |-> JStr(d)])])])

\* the JSON-RPC response that acknowledges the subscription request
SubscriptionAck == JObj([jsonrpc |-> JStr("2.0"), result |-> JNum(7), id |-> JNum(1)])

\* an event notification: params.result carries no digest
EventNotification ==
    JObj([jsonrpc |-> JStr("2.0"),
          method |-> JStr("sui_subscribeEvent"),
          params |-> JObj([subscription |-> JNum(7),
                           result |-> JObj([type |-> JStr("0x2::coin::Minted")])])])

\* params.result.digest is present but is a number
NumericDigest ==
    JObj([params |-> JObj([result |-> JObj([digest |-> JNum(5)])])])

\* params is a string, not an object
ScalarParams == JObj([params |-> JStr("x")])

\* Sample frame texts, each with the document it encodes (None: not JSON).
TextTable ==
    ("{\"jsonrpc\":\"2.0\",\"method\":\"sui_subscribeTransaction\",\"params\":{\"subscription\":7,\"result\":{\"digest\":\"d1\"}}}"
        :> Some(TxNotification("d1")))
 @@ ("{\"jsonrpc\":\"2.0\",\"method\":\"sui_subscribeTransaction\",\"params\":{\"subscription\":7,\"result\":{\"digest\":\"d2\"}}}"
        :> Some(TxNotification("d2")))
 @@ ("{\"jsonrpc\":\"2.0\",\"result\":7,\"id\":1}" :> Some(SubscriptionAck))
 @@ ("{\"jsonrpc\":\"2.0\",\"method\":\"sui_subscribeEvent\",\"params\":{\"subscription\":7,\"result\":{\"type\":\"0x2::coin::Minted\"}}}"
        :> Some(EventNotification))
 @@ ("{\"params\":{\"result\":{\"digest\":5}}}" :> Some(NumericDigest))
 @@ ("{\"params\":\"x\"}" :> Some(ScalarParams))
 @@ ("{\"params\":" :> None)

Texts == DOMAIN TextTable

\* serde_json::from_str::<Value>(&text)
from_str(text) ==
    IF TextTable[text].some
    THEN Ok(TextTable[text].val)
    ELSE Err("Json", "EOF while parsing a value")

(***************************************************************************)
(* tungstenite::Message, and the items of the inbound stream.              *)
(***************************************************************************)
Text(t) == [type |-> "Text", text |-> t]
Binary == [type |-> "Binary"]
Ping == [type |-> "Ping"]
Pong == [type |-> "Pong"]
Close == [type |-> "Close"]

Messages == {Text(t) : t \in Texts} \cup {Binary, Ping, Pong, Close}

TransportErrors == {"Connection reset without closing handshake", "IO error"}

\* read.next().await yields Some(Ok(message)), Some(Err(e)), or None once the
\* stream has ended.
StreamItems ==
    {Some(Ok(m)) : m \in Messages} \cup
    {Some(Err("tungstenite", e)) : e \in TransportErrors} \cup
    {None}

(***************************************************************************)
(* The subscription requests, listener.rs:71-76, 131-136, 194-199.         *)
(***************************************************************************)
ListenKinds == {"listen_transactions", "listen_events", "listen_address_transactions"}

Address == "0x1234"

SubscriptionRequest(kind) ==
    CASE kind = "listen_transactions" ->
            [jsonrpc |-> "2.0", id |-> 1, method |-> "sui_subscribeTransaction",
             params |-> <<[All |-> <<>>]>>]
      [] kind = "listen_events" ->
            [jsonrpc |-> "2.0", id |-> 1, method |-> "sui_subscribeEvent",
             params |-> <<[All |-> <<>>]>>]
      [] kind = "listen_address_transactions" ->
            [jsonrpc |-> "2.0", id |-> 1, method |-> "sui_subscribeTransaction",
             params |-> <<[ToOrFromAddress |-> [addr |-> Address]]>>]

(***************************************************************************)
(* What each loop does with a text frame: the callback argument, if the    *)
(* callback is to be invoked.                                              *)
(***************************************************************************)
\* event.get("params").and_then(result).and_then(digest).and_then(as_str)
DigestOf(event) ==
    AndThenAsStr(AndThenGet(AndThenGet(ValueGet(event, "params"), "result"), "digest"))

\* listener.rs:80-92
listen_transactions_text(text) ==
    LET event == from_str(text)
    IN  IF event.ok THEN DigestOf(event.val) ELSE None

\* listener.rs:140-145
listen_events_text(text) ==
    LET event == from_str(text)
    IN  IF event.ok THEN Some(event.val) ELSE None

\* mutant: a missing digest defaults to the empty string
listen_address_transactions_text_Default(text) ==
    LET event == from_str(text)
    IN  IF event.ok
        THEN Some(IF DigestOf(event.val).some THEN DigestOf(event.val).val ELSE "")
        ELSE None
\* listener.rs:203-214
listen_address_transactions_text(text) ==
    LET event == from_str(text)
    IN  IF event.ok THEN DigestOf(event.val) ELSE None

OnText(kind, text) ==
    CASE kind = "listen_transactions" -> listen_transactions_text(text)
      [] kind = "listen_events" -> listen_events_text(text)
      [] kind = "listen_address_transactions" -> listen_address_transactions_text(text)

\* The Close arm, with the loop going on to the next frame.
OnClose_Continue == [do |-> "continue"]

\* The match arms on one stream item (listener.rs:79-100, 139-153, 202-222):
\* what the loop does next.
OnClose == [do |-> "break"]
\* mutant: the error arm leaves the loop as the Close arm does
OnTransportError_Break(e) == [do |-> "break"]
OnTransportError(e) == [do |-> "return", ret |-> Err("WebSocket", e)]
OnOther == [do |-> "continue"]

Dispatch(kind, item) ==
    IF ~item.some THEN [do |-> "break"]              \* while let Some(..) fails
    ELSE IF ~item.val.ok THEN OnTransportError(item.val.msg)
    ELSE IF item.val.val.type = "Text" THEN
            LET arg == OnText(kind, item.val.val.text)
            IN  IF arg.some THEN [do |-> "callback", arg |-> arg.val]
                ELSE [do |-> "continue"]
    ELSE IF item.val.val.type = "Close" THEN OnClose
    ELSE OnOther

\* the statement after the loop, listener.rs:102, 155, 224
AfterLoop == Ok(Unit)

(***************************************************************************)
(* The listen call as a state machine.                                     *)
(***************************************************************************)
MaxFrames == 3

LInit ==
    /\ lkind = "none"
    /\ lpc = "idle"
    /\ conns = 0
    /\ sent = <<>>
    /\ received = <<>>
    /\ cbArg = None
    /\ calls = <<>>
    /\ lret = None

\* the caller invokes one of the three operations
ListenCall ==
    /\ lpc = "idle"
    /\ \E k \in ListenKinds : lkind' = k
    /\ lpc' = "connecting"
    /\ UNCHANGED <<conns, sent, received, cbArg, calls, lret, notListen>>

\* Connect, with a failure passed over and the call going on.
Connect_FailureIgnored ==
    /\ lpc = "connecting"
    /\ \/ /\ conns' = conns + 1
          /\ lpc' = "subscribing"
          /\ UNCHANGED lret
       \/ /\ lpc' = "streaming"
          /\ UNCHANGED <<conns, lret>>
    /\ UNCHANGED <<lkind, sent, received, cbArg, calls, notListen>>

\* connect_async(&self.url).await?   (listener.rs:69, 129, 192)
Connect ==
    /\ lpc = "connecting"
    /\ \/ /\ conns' = conns + 1
          /\ lpc' = "subscribing"
          /\ UNCHANGED lret
       \/ /\ lret' = Some(Err("WebSocket", "connect failed"))
          /\ lpc' = "done"
          /\ UNCHANGED conns
    /\ UNCHANGED <<lkind, sent, received, cbArg, calls, notListen>>

\* Subscribe, with the request written a second time.
Subscribe_Twice ==
    /\ lpc = "subscribing"
    /\ \/ /\ sent' = sent \o <<SubscriptionRequest(lkind), SubscriptionRequest(lkind)>>
          /\ lpc' = "streaming"
          /\ UNCHANGED lret
       \/ /\ lret' = Some(Err("WebSocket", "send failed"))
          /\ lpc' = "done"
          /\ UNCHANGED sent
    /\ UNCHANGED <<lkind, conns, received, cbArg, calls, notListen>>

\* write.send(Message::Text(msg)).await?   (listener.rs:77, 137, 200)
Subscribe ==
    /\ lpc = "subscribing"
    /\ \/ /\ sent' = Append(sent, SubscriptionRequest(lkind))
          /\ lpc' = "streaming"
          /\ UNCHANGED lret
       \/ /\ lret' = Some(Err("WebSocket", "send failed"))
          /\ lpc' = "done"
          /\ UNCHANGED sent
    /\ UNCHANGED <<lkind, conns, received, cbArg, calls, notListen>>

\* one turn of `while let Some(message) = read.next().await { match message ... }`
ReadNext ==
    /\ lpc = "streaming"
    /\ Len(received) < MaxFrames
    /\ \E item \in StreamItems :
        LET d == Dispatch(lkind, item)
        IN  /\ received' = Append(received, item)
            /\ CASE d.do = "callback" ->
                        /\ cbArg' = Some(d.arg)
                        /\ lpc' = "callback"
                        /\ UNCHANGED lret
                 [] d.do = "continue" ->
                        /\ UNCHANGED <<cbArg, lpc, lret>>
                 [] d.do = "break" ->
                        /\ lret' = Some(AfterLoop)
                        /\ lpc' = "done"
                        /\ UNCHANGED cbArg
                 [] d.do = "return" ->
                        /\ lret' = Some(d.ret)
                        /\ lpc' = "done"
                        /\ UNCHANGED cbArg
    /\ UNCHANGED <<lkind, conns, sent, calls, notListen>>

\* mutant: the invocation is recorded ahead of the earlier ones
Callback_Reordered ==
    /\ lpc = "callback"
    /\ calls' = <<cbArg.val>> \o calls
    /\ cbArg' = None
    /\ lpc' = "streaming"
    /\ UNCHANGED <<lkind, conns, sent, received, lret, notListen>>
\* callback(..) runs to completion inside the loop body (listener.rs:89, 143, 211)
Callback ==
    /\ lpc = "callback"
    /\ calls' = Append(calls, cbArg.val)
    /\ cbArg' = None
    /\ lpc' = "streaming"
    /\ UNCHANGED <<lkind, conns, sent, received, lret, notListen>>

LNext == ListenCall \/ Connect \/ Subscribe \/ ReadNext \/ Callback

(***************************************************************************)
(* Wallet operations as a state machine: the caller creates or imports a   *)
(* wallet, signs messages and verifies signatures.                         *)
(***************************************************************************)
RECURSIVE KeyRange(_, _, _)
KeyRange(seed, lo, hi) ==
    IF lo > hi THEN <<>>
    ELSE IF lo = hi THEN <<(seed * lo + 3) % 256>>
    ELSE KeyRange(seed, lo, (lo + hi) \div 2) \o KeyRange(seed, ((lo + hi) \div 2) + 1, hi)

\* n bytes that differ from seed to seed
KeyBytes(seed, n) == KeyRange(seed, 1, n)

\* outputs of the random source in Ed25519KeyPair::generate
RandomKeys == {KeyBytes(1, KEY_LEN), KeyBytes(2, KEY_LEN), KeyBytes(3, KEY_LEN)}

\* inputs to from_private_key: 32 bytes, and other lengths
KeyInputs == RandomKeys \cup {<<>>, KeyBytes(2, KEY_LEN - 1), KeyBytes(2, KEY_LEN + 1)}

Messages_ToSign == {<<>>, <<1, 2, 3>>, <<255>>}

\* A signature an Ed25519 signer would produce for the public key and message,
\* were the key's secret scalar known: R = [s]B - [k]A with k the challenge of
\* (R, A, M).  Small as the group is, they are found by trying every (s, k).
ConformantSignatures(public_key, message) ==
    LET A == Decompress(public_key)
    IN  IF ~A.some THEN {}
        ELSE LET R(sc, kc) == PointAdd(ScalarMul(sc, BasePoint),
                                       ScalarMul(kc, PointNeg(A.val)))
             IN  {Compress(R(c[1], c[2])) \o ScalarBytes(c[1]) :
                    c \in {e \in (0..(GroupOrder - 1)) \X (0..(GroupOrder - 1)) :
                            /\ ~IsSmallOrder(R(e[1], e[2]))
                            /\ Challenge(Compress(R(e[1], e[2])), public_key, message) = e[2]}}

\* the signatures a caller may hand to verify_signature
SignatureTable ==
    [k \in RandomKeys |->
        [m \in Messages_ToSign |->
            LET w == Wallet_new(k).val
            IN  {Wallet_sign(Wallet_new(o).val, n) : o \in RandomKeys, n \in Messages_ToSign}
                \cup ConformantSignatures(get_public_key_bytes(w), m)
                \cup {<<>>, SubSeq(Wallet_sign(w, m), 1, SIG_LEN - 1),
                      Append(Wallet_sign(w, m), 0)}]]

WInit ==
    /\ wallet = None
    /\ wres = [op |-> "none"]

\* Wallet::new()
WalletNew ==
    /\ \E random \in RandomKeys :
        LET r == Wallet_new(random)
        IN  /\ wallet' = Some(r.val)
            /\ wres' = [op |-> "new", out |-> r]
    /\ UNCHANGED notWallet

\* Wallet::from_private_key(bytes)
WalletFromPrivateKey ==
    /\ \E bytes \in KeyInputs :
        LET r == Wallet_from_private_key(bytes)
        IN  /\ wallet' = IF r.ok THEN Some(r.val) ELSE wallet
            /\ wres' = [op |-> "from_private_key", input |-> bytes, out |-> r]
    /\ UNCHANGED notWallet

\* wallet.sign(message)
WalletSign ==
    /\ wallet.some
    /\ \E m \in Messages_ToSign :
        wres' = [op |-> "sign", message |-> m, out |-> Wallet_sign(wallet.val, m)]
    /\ UNCHANGED <<wallet, notWallet>>

\* wallet.verify_signature(message, signature)
WalletVerify ==
    /\ wallet.some
    /\ \E m \in Messages_ToSign :
        \E sig \in SignatureTable[wallet.val.keypair.private_key][m] :
            wres' = [op |-> "verify_signature", message |-> m, signature |-> sig,
                     out |-> verify_signature(wallet.val, m, sig)]
    /\ UNCHANGED <<wallet, notWallet>>

\* format!("{:?}", wallet)
WalletDebug ==
    /\ wallet.some
    /\ wres' = [op |-> "debug", out |-> Debug_Wallet(wallet.val)]
    /\ UNCHANGED <<wallet, notWallet>>

WNext == WalletNew \/ WalletFromPrivateKey \/ WalletSign \/ WalletVerify \/ WalletDebug

(***************************************************************************)
(* Keystore operations as a state machine.                                 *)
(***************************************************************************)
StoreAddresses == {"0xabc", "0xdef"}
StoreSecrets == {"secret1", "secret2"}

(***************************************************************************)
(* The keystore file, wallet.rs:24-33.  The content of a file is the       *)
(* sequence of JSON tokens in it (white space is not kept); a string token *)
(* carries the string it denotes.                                          *)
(***************************************************************************)
Punct(c) == [t |-> c, s |-> ""]
StrTok(str) == [t |-> "str", s |-> str]

RECURSIVE EntryTokens(_, _, _)
EntryTokens(ks, order, i) ==
    IF i > Len(order) THEN <<>>
    ELSE (IF i > 1 THEN <<Punct(",")>> ELSE <<>>)
         \o <<StrTok(order[i]), Punct(":"), StrTok(ks.keys[order[i]])>>
         \o EntryTokens(ks, order, i + 1)

\* to_string_pretty, with the entries after the first left out.
to_string_pretty_FirstEntry(ks, order) ==
    <<Punct("{"), StrTok("keys"), Punct(":"), Punct("{")>>
        \o EntryTokens(ks, IF Len(order) = 0 THEN <<>> ELSE <<order[1]>>, 1)
        \o <<Punct("}"), Punct("}")>>

\* serde_json::to_string_pretty(self): the derived Serialize of Keystore, the
\* map written in iteration order.
to_string_pretty(ks, order) ==
    <<Punct("{"), StrTok("keys"), Punct(":"), Punct("{")>>
        \o EntryTokens(ks, order, 1)
        \o <<Punct("}"), Punct("}")>>

JsonError == Err("Json", "serde_json::Error")
IoError(msg) == Err("Io", msg)

IsTok(tokens, i, c) == i <= Len(tokens) /\ tokens[i].t = c

\* The entries of a JSON object of strings from tokens[i] on, tokens[i] being
\* its first key or its closing brace; a later entry replaces an earlier one
\* with the same key.  [ok, map, next], next the place after the brace.
RECURSIVE ParseEntries(_, _, _, _)
ParseEntries(tokens, i, first, map) ==
    IF first /\ IsTok(tokens, i, "}")
    THEN [ok |-> TRUE, map |-> map, next |-> i + 1]
    ELSE IF IsTok(tokens, i, "str") /\ IsTok(tokens, i + 1, ":")
            /\ IsTok(tokens, i + 2, "str")
    THEN LET more == add_key(map, tokens[i].s, tokens[i + 2].s)
         IN  IF IsTok(tokens, i + 3, ",")
             THEN ParseEntries(tokens, i + 4, FALSE, more)
             ELSE IF IsTok(tokens, i + 3, "}")
             THEN [ok |-> TRUE, map |-> more, next |-> i + 4]
             ELSE [ok |-> FALSE]
    ELSE [ok |-> FALSE]

\* HashMap<String, String> from tokens[i] on.
ParseStringMap(tokens, i) ==
    IF IsTok(tokens, i, "{")
    THEN ParseEntries(tokens, i + 1, TRUE, Keystore_new)
    ELSE [ok |-> FALSE]

\* The fields of the Keystore object from tokens[i] on: "keys" is read once,
\* any other field is skipped.  keys is None until the field has been read.
RECURSIVE ParseFields(_, _, _, _)
ParseFields(tokens, i, first, keys) ==
    IF first /\ IsTok(tokens, i, "}")
    THEN [ok |-> TRUE, keys |-> keys, next |-> i + 1]
    ELSE IF ~(IsTok(tokens, i, "str") /\ IsTok(tokens, i + 1, ":"))
    THEN [ok |-> FALSE]
    ELSE LET isKeys == tokens[i].s = "keys"
             value == IF isKeys \/ IsTok(tokens, i + 2, "{")
                      THEN ParseStringMap(tokens, i + 2)
                      ELSE IF IsTok(tokens, i + 2, "str")
                      THEN [ok |-> TRUE, map |-> Keystore_new, next |-> i + 3]
                      ELSE [ok |-> FALSE]
         IN  IF ~value.ok \/ (isKeys /\ keys.some) THEN [ok |-> FALSE]
             ELSE LET got == IF isKeys THEN Some(value.map) ELSE keys
                  IN  IF IsTok(tokens, value.next, ",")
                      THEN ParseFields(tokens, value.next + 1, FALSE, got)
                      ELSE IF IsTok(tokens, value.next, "}")
                      THEN [ok |-> TRUE, keys |-> got, next |-> value.next + 1]
                      ELSE [ok |-> FALSE]

\* serde_json::from_str::<Keystore>(&content)
Keystore_from_str(tokens) ==
    IF ~IsTok(tokens, 1, "{") THEN JsonError
    ELSE LET parsed == ParseFields(tokens, 2, TRUE, None)
         IN  IF parsed.ok /\ parsed.keys.some /\ parsed.next = Len(tokens) + 1
             THEN Ok(parsed.keys.val)
             ELSE JsonError

\* Keystore::load_from_file, for the file at the path
load_from_file(file) ==
    IF ~file.some THEN IoError("No such file or directory")
    ELSE Keystore_from_str(file.val)

KInit ==
    /\ keystore = Keystore_new
    /\ kres = [op |-> "none"]
    /\ kfile = None

KeystoreAddKey ==
    /\ \E a \in StoreAddresses, sec \in StoreSecrets :
        /\ keystore' = add_key(keystore, a, sec)
        /\ kres' = [op |-> "add_key", address |-> a, private_key |-> sec]
    /\ UNCHANGED <<kfile, notKeystore>>

KeystoreRemoveKey ==
    /\ \E a \in StoreAddresses :
        /\ keystore' = remove_key(keystore, a)
        /\ kres' = [op |-> "remove_key", address |-> a, out |-> get_key(keystore, a)]
    /\ UNCHANGED <<kfile, notKeystore>>

KeystoreGetKey ==
    /\ \E a \in StoreAddresses :
        kres' = [op |-> "get_key", address |-> a, out |-> get_key(keystore, a)]
    /\ UNCHANGED <<keystore, kfile, notKeystore>>

KeystoreListAddresses ==
    /\ \E o \in IterationOrders(keystore) :
        kres' = [op |-> "list_addresses", out |-> list_addresses(keystore, o)]
    /\ UNCHANGED <<keystore, kfile, notKeystore>>

KeystoreLen ==
    /\ kres' = [op |-> "len", out |-> Keystore_len(keystore),
                is_empty |-> is_empty(keystore)]
    /\ UNCHANGED <<keystore, kfile, notKeystore>>

\* format!("{:?}", keystore)
KeystoreDebug ==
    /\ \E o \in IterationOrders(keystore) :
        kres' = [op |-> "debug", order |-> o, out |-> Debug_Keystore(keystore, o)]
    /\ UNCHANGED <<keystore, kfile, notKeystore>>

\* Contents the file may have been given by something else: an empty file,
\* a cut-off one, an object without keys, keys that is not a map, a key listed
\* twice, a field the Keystore does not have.
ForeignContents ==
    {<<>>,
     <<Punct("{"), StrTok("keys"), Punct(":"), Punct("{"),
       StrTok("0xabc"), Punct(":"), StrTok("secret1")>>,
     <<Punct("{"), Punct("}")>>,
     <<Punct("{"), StrTok("keys"), Punct(":"), StrTok("x"), Punct("}")>>,
     <<Punct("{"), StrTok("keys"), Punct(":"), Punct("{"),
       StrTok("0xabc"), Punct(":"), StrTok("secret1"), Punct(","),
       StrTok("0xabc"), Punct(":"), StrTok("secret2"), Punct("}"), Punct("}")>>,
     <<Punct("{"), StrTok("version"), Punct(":"), StrTok("1"), Punct(","),
       StrTok("keys"), Punct(":"), Punct("{"), Punct("}"), Punct("}")>>}

\* keystore.save_to_file(path): fs::write succeeds, or fails and leaves the
\* file as it was or empty.
KeystoreSave ==
    /\ \E o \in IterationOrders(keystore) :
        \/ /\ kfile' = Some(to_string_pretty(keystore, o))
           /\ kres' = [op |-> "save_to_file", order |-> o, out |-> Ok(Unit)]
        \/ /\ kfile' \in {kfile, Some(<<>>)}
           /\ kres' = [op |-> "save_to_file", order |-> o,
                        out |-> IoError("Permission denied")]
    /\ UNCHANGED <<keystore, notKeystore>>

\* Keystore::load_from_file(path): the caller holds the loaded keystore
KeystoreLoad ==
    /\ LET r == load_from_file(kfile)
       IN  /\ kres' = [op |-> "load_from_file", file |-> kfile, out |-> r]
           /\ keystore' = IF r.ok THEN r.val ELSE keystore
    /\ UNCHANGED <<kfile, notKeystore>>

\* Something else writes or removes the file.
FileChanged ==
    /\ kfile' \in {None} \cup {Some(c) : c \in ForeignContents}
    /\ kfile' # kfile
    /\ UNCHANGED <<keystore, kres, notKeystore>>

KNext ==
    \/ KeystoreAddKey \/ KeystoreRemoveKey \/ KeystoreGetKey
    \/ KeystoreListAddresses \/ KeystoreLen \/ KeystoreDebug
    \/ KeystoreSave \/ KeystoreLoad \/ FileChanged

(***************************************************************************)
(* JSON-RPC over HTTP: SuiClient::request, lib.rs:85-111.                  *)
(*                                                                         *)
(* The node's answer to one POST is either a failure of send() or a body;  *)
(* the body is a JSON document or is not JSON at all.  Decoding follows    *)
(* the derived Deserialize of RpcResponse<T>, RpcError and Coin.           *)
(***************************************************************************)
SendError == [type |-> "send_error"]
HttpBody(doc) == [type |-> "body", json |-> doc]

RpcRequest(method, params) ==
    [jsonrpc |-> "2.0", id |-> 1, method |-> method, params |-> params]

DecodeError == Err("HttpRequest", "error decoding response body")

\* An Option<_> field of a derived Deserialize: absent or null is None.
OptionField(doc, key) ==
    LET member == ValueGet(doc, key)
    IN  IF member.some /\ member.val.kind # "null" THEN Some(member.val) ELSE None

HasStr(doc, key) == ValueGet(doc, key).some /\ ValueGet(doc, key).val.kind = "str"
HasNum(doc, key) == ValueGet(doc, key).some /\ ValueGet(doc, key).val.kind = "num"

\* types.rs:109-115
Deserialize_Coin(v) ==
    IF /\ HasStr(v, "coin_object_id") /\ HasNum(v, "version")
       /\ HasStr(v, "digest") /\ HasNum(v, "balance")
    THEN Ok([coin_object_id |-> v.fields.coin_object_id.str,
             version |-> v.fields.version.num,
             digest |-> v.fields.digest.str,
             balance |-> v.fields.balance.num])
    ELSE DecodeError

RECURSIVE CoinsFrom(_, _)
CoinsFrom(items, i) ==
    IF i > Len(items) THEN <<>>
    ELSE <<Deserialize_Coin(items[i]).val>> \o CoinsFrom(items, i + 1)

\* Vec<Coin>
Deserialize_VecCoin(v) ==
    IF v.kind = "arr" /\ \A i \in 1..Len(v.items) : Deserialize_Coin(v.items[i]).ok
    THEN Ok(CoinsFrom(v.items, 1))
    ELSE DecodeError

HasObj(doc, key) == ValueGet(doc, key).some /\ ValueGet(doc, key).val.kind = "obj"
HasArr(doc, key) == ValueGet(doc, key).some /\ ValueGet(doc, key).val.kind = "arr"

\* types.rs:68-80: GasCostSummary, and OwnedObjectRef with its ObjectRef
\* (the members of Owner are all optional).
IsGasCostSummary(v) ==
    HasNum(v, "computation_cost") /\ HasNum(v, "storage_cost") /\ HasNum(v, "storage_rebate")

IsOwnedObjectRef(v) ==
    /\ HasObj(v, "owner") /\ HasObj(v, "reference")
    /\ HasStr(v.fields.reference, "object_id") /\ HasNum(v.fields.reference, "version")
    /\ HasStr(v.fields.reference, "digest")

\* types.rs:57-66: TransactionEffects with its ExecutionStatus
IsTransactionEffects(v) ==
    /\ HasObj(v, "status") /\ HasStr(v.fields.status, "status")
    /\ HasObj(v, "gas_used") /\ IsGasCostSummary(v.fields.gas_used)
    /\ HasStr(v, "transaction_digest")
    /\ HasArr(v, "mutated")
    /\ \A i \in 1..Len(v.fields.mutated.items) : IsOwnedObjectRef(v.fields.mutated.items[i])

\* types.rs:94-107: Event with its EventId
IsEvent(v) ==
    /\ HasObj(v, "id") /\ HasStr(v.fields.id, "tx_digest") /\ HasNum(v.fields.id, "event_seq")
    /\ HasStr(v, "type") /\ ValueGet(v, "parsed_json").some

\* types.rs:50-55: the decoded value keeps the members the struct has.
Deserialize_TransactionResponse(v) ==
    IF /\ HasStr(v, "digest")
       /\ HasObj(v, "effects") /\ IsTransactionEffects(v.fields.effects)
       /\ HasArr(v, "events")
       /\ \A i \in 1..Len(v.fields.events.items) : IsEvent(v.fields.events.items[i])
    THEN Ok([digest |-> v.fields.digest.str,
             effects |-> [status |-> [status |-> v.fields.effects.fields.status.fields.status.str],
                          gas_used |-> v.fields.effects.fields.gas_used,
                          transaction_digest |-> v.fields.effects.fields.transaction_digest.str,
                          mutated |-> v.fields.effects.fields.mutated.items],
             events |-> v.fields.events.items])
    ELSE DecodeError

\* T is serde_json::Value (the construction calls), Vec<Coin> (get_coin_vec)
\* or TransactionResponse (exe_transaction).
Deserialize(T, v) ==
    CASE T = "Value" -> Ok(v)
      [] T = "VecCoin" -> Deserialize_VecCoin(v)
      [] T = "TransactionResponse" -> Deserialize_TransactionResponse(v)

\* types.rs:133-137
Deserialize_RpcError(v) ==
    IF HasNum(v, "code") /\ HasStr(v, "message")
    THEN Ok([code |-> v.fields.code.num, message |-> v.fields.message.str])
    ELSE DecodeError

\* types.rs:125-131
Deserialize_RpcResponse(T, doc) ==
    LET result == OptionField(doc, "result")
        error == OptionField(doc, "error")
    IN  IF ~(HasStr(doc, "jsonrpc") /\ HasNum(doc, "id")) THEN DecodeError
        ELSE IF result.some /\ ~Deserialize(T, result.val).ok THEN DecodeError
        ELSE IF error.some /\ ~Deserialize_RpcError(error.val).ok THEN DecodeError
        ELSE Ok([jsonrpc |-> doc.fields.jsonrpc.str,
                 result |-> IF result.some
                            THEN Some(Deserialize(T, result.val).val) ELSE None,
                 error |-> IF error.some
                           THEN Some(Deserialize_RpcError(error.val).val) ELSE None,
                 id |-> doc.fields.id.num])

\* lib.rs:105-110, with the result taken before the error is looked at.
RpcOutcome_ResultFirst(response) ==
    IF response.result.some THEN Ok(response.result.val)
    ELSE IF response.error.some THEN Err("Rpc", response.error.val.message)
    ELSE Err("Rpc", "No result in response")

\* lib.rs:105-110
RpcOutcome(response) ==
    IF response.error.some THEN Err("Rpc", response.error.val.message)
    ELSE IF response.result.some THEN Ok(response.result.val)
    ELSE Err("Rpc", "No result in response")

\* request, with an execution status other than success turned into an error.
request_StatusChecked(T, answer) ==
    IF answer.type = "send_error" THEN Err("HttpRequest", "error sending request")
    ELSE IF ~answer.json.some THEN DecodeError
    ELSE LET decoded == Deserialize_RpcResponse(T, answer.json.val)
             outcome == RpcOutcome(decoded.val)
         IN  IF ~decoded.ok THEN DecodeError
             ELSE IF /\ T = "TransactionResponse" /\ outcome.ok
                     /\ outcome.val.effects.status.status # "success"
             THEN Err("Transaction", outcome.val.effects.status.status)
             ELSE outcome

\* lib.rs:96-110: what request::<T> returns for the node's answer.
request(T, answer) ==
    IF answer.type = "send_error" THEN Err("HttpRequest", "error sending request")
    ELSE IF ~answer.json.some THEN DecodeError
    ELSE LET decoded == Deserialize_RpcResponse(T, answer.json.val)
         IN  IF decoded.ok THEN RpcOutcome(decoded.val) ELSE DecodeError

(***************************************************************************)
(* BASE64_STANDARD.decode, trade.rs:145-147.  A string is decoded from its *)
(* characters; B64Chars lists the characters of each string the node       *)
(* sends as txBytes.  The error carries the name of the DecodeError case.  *)
(***************************************************************************)
B64Alphabet ==
    <<"A", "B", "C", "D", "E", "F", "G", "H", "I", "J", "K", "L", "M",
      "N", "O", "P", "Q", "R", "S", "T", "U", "V", "W", "X", "Y", "Z",
      "a", "b", "c", "d", "e", "f", "g", "h", "i", "j", "k", "l", "m",
      "n", "o", "p", "q", "r", "s", "t", "u", "v", "w", "x", "y", "z",
      "0", "1", "2", "3", "4", "5", "6", "7", "8", "9", "+", "/">>

IsB64(c) == \E i \in 1..Len(B64Alphabet) : B64Alphabet[i] = c
B64Index(c) == (CHOOSE i \in 1..Len(B64Alphabet) : B64Alphabet[i] = c) - 1

\* Four symbols make three bytes.
Quad(s1, s2, s3, s4) ==
    LET v == ((B64Index(s1) * 64 + B64Index(s2)) * 64 + B64Index(s3)) * 64 + B64Index(s4)
    IN  <<v \div 65536, (v \div 256) % 256, v % 256>>

RECURSIVE Quads(_, _, _)
Quads(symbols, lo, n) ==
    IF n = 0 THEN <<>>
    ELSE Quad(symbols[lo], symbols[lo + 1], symbols[lo + 2], symbols[lo + 3])
            \o Quads(symbols, lo + 4, n - 1)

base64_decode(chars) ==
    LET n == Len(chars)
        pad == IF n >= 1 /\ chars[n] = "="
               THEN (IF n >= 2 /\ chars[n - 1] = "=" THEN 2 ELSE 1)
               ELSE 0
        symbols == SubSeq(chars, 1, n - pad)
        m == Len(symbols)
        full == m \div 4
        rest == m % 4
        tail2 == B64Index(symbols[m - 1]) * 64 + B64Index(symbols[m])
        tail3 == (B64Index(symbols[m - 2]) * 64 + B64Index(symbols[m - 1])) * 64
                    + B64Index(symbols[m])
    IN  IF \E i \in 1..m : ~IsB64(symbols[i]) THEN Err("Base64", "Invalid byte")
        ELSE IF rest = 1 THEN Err("Base64", "Invalid input length")
        ELSE IF (rest = 0 /\ pad # 0) \/ (rest = 2 /\ pad # 2) \/ (rest = 3 /\ pad # 1)
             THEN Err("Base64", "Invalid padding")
        ELSE IF rest = 2 /\ tail2 % 16 # 0 THEN Err("Base64", "Invalid last symbol")
        ELSE IF rest = 3 /\ tail3 % 4 # 0 THEN Err("Base64", "Invalid last symbol")
        ELSE Ok(Quads(symbols, 1, full)
                \o (IF rest = 2 THEN <<tail2 \div 16>>
                    ELSE IF rest = 3 THEN <<tail3 \div 1024, (tail3 \div 4) % 256>>
                    ELSE <<>>))

B64Chars ==
    ("AQID" :> <<"A", "Q", "I", "D">>)
    @@ ("AQI=" :> <<"A", "Q", "I", "=">>)
    @@ ("/w==" :> <<"/", "w", "=", "=">>)
    @@ ("AQIDBAUG" :> <<"A", "Q", "I", "D", "B", "A", "U", "G">>)
    @@ ("" :> <<>>)
    @@ ("AQI" :> <<"A", "Q", "I">>)
    @@ ("AQJ=" :> <<"A", "Q", "J", "=">>)
    @@ ("A!ID" :> <<"A", "!", "I", "D">>)

\* Three bytes make four symbols.
Symbols3(b1, b2, b3) ==
    LET v == (b1 * 256 + b2) * 256 + b3
    IN  B64Alphabet[(v \div 262144) + 1] \o B64Alphabet[((v \div 4096) % 64) + 1]
        \o B64Alphabet[((v \div 64) % 64) + 1] \o B64Alphabet[(v % 64) + 1]

\* BASE64_STANDARD.encode, lib.rs:268-270: the string, padded with "=".
RECURSIVE base64_encode(_)
base64_encode(bytes) ==
    IF Len(bytes) = 0 THEN ""
    ELSE IF Len(bytes) = 1
    THEN B64Alphabet[(bytes[1] \div 4) + 1] \o B64Alphabet[((bytes[1] % 4) * 16) + 1] \o "=="
    ELSE IF Len(bytes) = 2
    THEN B64Alphabet[(bytes[1] \div 4) + 1]
         \o B64Alphabet[((bytes[1] % 4) * 16 + bytes[2] \div 16) + 1]
         \o B64Alphabet[((bytes[2] % 16) * 4) + 1] \o "="
    ELSE Symbols3(bytes[1], bytes[2], bytes[3])
         \o base64_encode(SubSeq(bytes, 4, Len(bytes)))

\* lib.rs:271-276, with the signature listed ahead of the transaction.
exe_transaction_request_SignatureFirst(trade_bytes, sign, pub_key) ==
    RpcRequest("sui_executeTransactionBlock",
               <<JStr(base64_encode(sign)), JStr("Ed25519"),
                 JStr(base64_encode(trade_bytes)), JStr(base64_encode(pub_key))>>)

\* lib.rs:262-278: the request exe_transaction posts.
exe_transaction_request(trade_bytes, sign, pub_key) ==
    RpcRequest("sui_executeTransactionBlock",
               <<JStr(base64_encode(trade_bytes)), JStr("Ed25519"),
                 JStr(base64_encode(sign)), JStr(base64_encode(pub_key))>>)

(***************************************************************************)
(* trade.rs: the Trade builder and the four pipeline operations.           *)
(***************************************************************************)
DefaultGasBudget == 1000

\* trade.rs:16-23
Trade_new == [gas_payment |-> None, gas_budget |-> DefaultGasBudget]

\* trade.rs:24-27
with_gas_payment(t, gas_payment) == [t EXCEPT !.gas_payment = Some(gas_payment)]

\* trade.rs:28-31
with_gas_budget(t, gas_budget) == [t EXCEPT !.gas_budget = gas_budget]

\* type_arguments.into_iter().map(Value::from).collect()
RECURSIVE StrValues(_, _)
StrValues(strs, i) ==
    IF i > Len(strs) THEN <<>> ELSE <<JStr(strs[i])>> \o StrValues(strs, i + 1)

\* split_amounts.into_iter().map(|amount| amount.to_string().into()).collect()
RECURSIVE AmountValues(_, _)
AmountValues(amounts, i) ==
    IF i > Len(amounts) THEN <<>>
    ELSE <<JStr(ToString(amounts[i]))>> \o AmountValues(amounts, i + 1)

\* trade.rs:42-48
transfer_by_sui_params(t, w, gas_payment, args) ==
    <<JStr(w.address), JStr(gas_payment), JStr(ToString(args.amount)),
      JStr(args.recipient), JStr(ToString(t.gas_budget))>>

\* trade.rs:65-78
call_contract_function_params(t, w, gas_payment, args) ==
    <<JStr(w.address), JStr(args.package_object_id), JStr(args.module),
      JStr(args.function), JArr(StrValues(args.type_arguments, 1)),
      JArr(args.arguments), JStr(gas_payment), JStr(ToString(t.gas_budget))>>

\* trade.rs:92-98, with the fee resource moved up to the second place.
merge_coins_params_FeeSecond(t, w, gas_payment, args) ==
    <<JStr(w.address), JStr(gas_payment), JStr(args.primary_coin),
      JStr(args.coin_to_merge), JStr(ToString(t.gas_budget))>>

\* trade.rs:92-98
merge_coins_params(t, w, gas_payment, args) ==
    <<JStr(w.address), JStr(args.primary_coin), JStr(args.coin_to_merge),
      JStr(gas_payment), JStr(ToString(t.gas_budget))>>

\* trade.rs:112-122
split_coin_params(t, w, gas_payment, args) ==
    <<JStr(w.address), JStr(args.coin_object_id),
      JArr(AmountValues(args.split_amounts, 1)),
      JStr(gas_payment), JStr(ToString(t.gas_budget))>>

PipelineOps == {"transfer_by_sui", "call_contract_function", "merge_coins", "split_coin"}

\* trade.rs:49, 79, 99, 123
ConstructionMethod(op) ==
    CASE op = "transfer_by_sui" -> "unsafe_transferObject"
      [] op = "call_contract_function" -> "unsafe_moveCall"
      [] op = "merge_coins" -> "unsafe_mergeCoins"
      [] op = "split_coin" -> "unsafe_splitCoin"

ConstructionParams(op, t, w, gas_payment, args) ==
    CASE op = "transfer_by_sui" -> transfer_by_sui_params(t, w, gas_payment, args)
      [] op = "call_contract_function" ->
            call_contract_function_params(t, w, gas_payment, args)
      [] op = "merge_coins" -> merge_coins_params(t, w, gas_payment, args)
      [] op = "split_coin" -> split_coin_params(t, w, gas_payment, args)

\* trade.rs:41, 64, 91, 111, with the kind of transfer_by_sui in all four.
NoGasPaymentError_Uniform(op) == Err("Transaction", "No gas payment available")

\* trade.rs:41, 64, 91, 111
NoGasPaymentError(op) ==
    IF op = "transfer_by_sui"
    THEN Err("Transaction", "No gas payment available")
    ELSE Err("CallContract", "No gas payment available")

\* lib.rs:193-201: the request get_coin_vec(address, None) posts.
get_coin_vec_request(address) ==
    RpcRequest("sui_getCoins", <<JStr(address), JStr("0x2::sui::SUI")>>)

\* coins.first(), with the last entry taken instead.
first_Last(coins) == IF Len(coins) = 0 THEN None ELSE Some(coins[Len(coins)])

\* coins.first()
first(coins) == IF Len(coins) = 0 THEN None ELSE Some(coins[1])

\* trade.rs:131-134: what get_gas_payment makes of get_coin_vec's outcome.
GasPaymentFromCoins(outcome) ==
    IF outcome.ok
    THEN (IF first(outcome.val).some
          THEN Some(first(outcome.val).val.coin_object_id)
          ELSE None)
    ELSE None

\* trade.rs:141-147, with an undecodable txBytes read as no bytes at all.
decode_tx_bytes_EmptyOnFailure(transaction_data) ==
    LET tx_bytes_str == AndThenAsStr(ValueGet(transaction_data, "txBytes"))
    IN  IF ~tx_bytes_str.some THEN Err("Transaction", "No txBytes in response")
        ELSE LET tx_bytes == base64_decode(B64Chars[tx_bytes_str.val])
             IN  IF ~tx_bytes.ok THEN Ok(<<>>) ELSE tx_bytes

\* trade.rs:141-147: sign_transaction up to the call of the signer
decode_tx_bytes(transaction_data) ==
    LET tx_bytes_str == AndThenAsStr(ValueGet(transaction_data, "txBytes"))
    IN  IF ~tx_bytes_str.some THEN Err("Transaction", "No txBytes in response")
        ELSE LET tx_bytes == base64_decode(B64Chars[tx_bytes_str.val])
             IN  IF ~tx_bytes.ok
                 THEN Err("Sign", "Failed to decode txBytes: " \o tx_bytes.msg)
                 ELSE tx_bytes

\* trade.rs:137-151
sign_transaction(w, transaction_data) ==
    LET tx_bytes == decode_tx_bytes(transaction_data)
    IN  IF ~tx_bytes.ok THEN tx_bytes
        ELSE Ok(<<tx_bytes.val, Wallet_sign(w, tx_bytes.val)>>)

(***************************************************************************)
(* The node's answers.                                                     *)
(***************************************************************************)
Envelope(members) == JObj(members @@ [jsonrpc |-> JStr("2.0"), id |-> JNum(1)])

RpcErrorValue(message) == JObj([code |-> JNum(3), message |-> JStr(message)])

CoinValue(id) ==
    JObj([coin_object_id |-> JStr(id), version |-> JNum(1),
          digest |-> JStr("dg"), balance |-> JNum(10)])

\* Answers to sui_getCoins: lists of zero, one and two coins, the paged
\* object a list is wrapped in, an error, an error together with a result,
\* neither, a null result, a body that is not JSON and a failed send.
CoinAnswers ==
    {HttpBody(Some(Envelope([result |-> JArr(<<>>)]))),
     HttpBody(Some(Envelope([result |-> JArr(<<CoinValue("0xc1")>>)]))),
     HttpBody(Some(Envelope([result |-> JArr(<<CoinValue("0xc2"), CoinValue("0xc1")>>)]))),
     HttpBody(Some(Envelope([result |-> JObj([data |-> JArr(<<CoinValue("0xc1")>>)])]))),
     HttpBody(Some(Envelope([error |-> RpcErrorValue("Invalid params")]))),
     HttpBody(Some(Envelope([result |-> JArr(<<CoinValue("0xc1")>>),
                             error |-> RpcErrorValue("Invalid params")]))),
     HttpBody(Some(Envelope(<<>>))),
     HttpBody(Some(Envelope([result |-> JNull]))),
     HttpBody(None),
     SendError}

TxData(txBytes) == JObj([txBytes |-> txBytes])

\* Answers to a construction call.
ConstructionAnswers ==
    {HttpBody(Some(Envelope([result |-> TxData(JStr(s))]))) : s \in DOMAIN B64Chars}
    \cup
    {HttpBody(Some(Envelope([result |-> TxData(JNum(5))]))),
     HttpBody(Some(Envelope([result |-> JObj([digest |-> JStr("dg")])]))),
     HttpBody(Some(Envelope([result |-> JStr("AQID")]))),
     HttpBody(Some(Envelope([error |-> RpcErrorValue("Insufficient gas")]))),
     HttpBody(Some(Envelope([result |-> TxData(JStr("AQID")),
                             error |-> RpcErrorValue("Insufficient gas")]))),
     HttpBody(Some(Envelope(<<>>))),
     HttpBody(Some(JObj([result |-> TxData(JStr("AQID"))]))),
     HttpBody(None),
     SendError}

(***************************************************************************)
(* One pipeline call as a state machine: a step runs the code from one     *)
(* await of an HTTP answer up to the next.                                 *)
(***************************************************************************)
\* The wallet the Trade borrows.
TradeWallet == Wallet_new(KeyBytes(2, KEY_LEN)).val

FeeIds == {"0xfee1", "0xc2"}
Budgets == {0, 7, DefaultGasBudget}

PipelineCalls ==
    {[op |-> "transfer_by_sui", args |-> [recipient |-> "0xbob", amount |-> a]] :
        a \in {0, 5}}
    \cup
    {[op |-> "call_contract_function",
      args |-> [package_object_id |-> "0x2", module |-> "coin", function |-> "mint",
                type_arguments |-> ta, arguments |-> ar]] :
        ta \in {<<>>, <<"0x2::sui::SUI">>}, ar \in {<<>>, <<JStr("0x9"), JNum(1)>>}}
    \cup
    {[op |-> "merge_coins", args |-> [primary_coin |-> "0xc1", coin_to_merge |-> c]] :
        c \in {"0xc2", "0xc3"}}
    \cup
    {[op |-> "split_coin", args |-> [coin_object_id |-> "0xc1", split_amounts |-> sa]] :
        sa \in {<<>>, <<1, 2>>}}

ConstructionRequest(call, t, gas_payment) ==
    RpcRequest(ConstructionMethod(call.op),
               ConstructionParams(call.op, t, TradeWallet, gas_payment, call.args))

NoCall == [op |-> "none"]

TInit ==
    /\ trade = Trade_new
    /\ tpc = "idle"
    /\ tcall = NoCall
    /\ tfee = None
    /\ trpc = <<>>
    /\ tresp = <<>>
    /\ tret = None
    /\ tsigned = <<>>
    /\ xreq = None
    /\ xresp = None
    /\ xret = None

\* A builder call makes a Trade on which no operation has been called yet.
FreshTrade(t) ==
    /\ tpc \in {"idle", "done"}
    /\ trade' = t
    /\ tpc' = "idle"
    /\ tcall' = NoCall
    /\ tfee' = None
    /\ trpc' = <<>>
    /\ tresp' = <<>>
    /\ tret' = None
    /\ tsigned' = <<>>
    /\ xreq' = None
    /\ xresp' = None
    /\ xret' = None
    /\ UNCHANGED notTrade

\* Trade::new(&client, &wallet)
TradeNew == FreshTrade(Trade_new)

\* trade.with_gas_payment(id)
WithGasPayment == \E id \in FeeIds : FreshTrade(with_gas_payment(trade, id))

\* trade.with_gas_budget(n)
WithGasBudget == \E n \in Budgets : FreshTrade(with_gas_budget(trade, n))

\* A pipeline operation is called: get_gas_payment returns the configured
\* id at once and the construction request is posted (trade.rs:128-130),
\* or get_coin_vec posts its request (trade.rs:131).
PipelineCall ==
    /\ tpc \in {"idle", "done"}
    /\ \E call \in PipelineCalls :
        /\ tcall' = call
        /\ IF trade.gas_payment.some
           THEN /\ tfee' = Some(trade.gas_payment.val)
                /\ trpc' = <<ConstructionRequest(call, trade, trade.gas_payment.val)>>
                /\ tpc' = "build"
           ELSE /\ tfee' = None
                /\ trpc' = <<get_coin_vec_request(TradeWallet.address)>>
                /\ tpc' = "coins"
    /\ tresp' = <<>>
    /\ tret' = None
    /\ tsigned' = <<>>
    /\ xreq' = None
    /\ xresp' = None
    /\ xret' = None
    /\ UNCHANGED <<trade, notTrade>>

\* The answer to sui_getCoins arrives: trade.rs:131-134, then the ok_or_else
\* of the operation and, with a fee resource, its construction request.
CoinsAnswer ==
    /\ tpc = "coins"
    /\ \E answer \in CoinAnswers :
        LET outcome == request("VecCoin", answer)
            gas_payment == GasPaymentFromCoins(outcome)
        IN  /\ tresp' = Append(tresp, [answer |-> answer, out |-> outcome])
            /\ tfee' = gas_payment
            /\ IF gas_payment.some
               THEN /\ trpc' = Append(trpc, ConstructionRequest(tcall, trade, gas_payment.val))
                    /\ tpc' = "build"
                    /\ tret' = None
               ELSE /\ trpc' = trpc
                    /\ tpc' = "done"
                    /\ tret' = Some(NoGasPaymentError(tcall.op))
    /\ UNCHANGED <<trade, tcall, tsigned, xreq, xresp, xret, notTrade>>

\* ConstructionAnswer, with the request posted once more after a failure.
ConstructionAnswer_Retry ==
    /\ tpc = "build"
    /\ \E answer \in ConstructionAnswers :
        LET outcome == request("Value", answer)
        IN  /\ tresp' = Append(tresp, [answer |-> answer, out |-> outcome])
            /\ tret' = Some(IF outcome.ok
                            THEN sign_transaction(TradeWallet, outcome.val)
                            ELSE outcome)
            /\ tsigned' = IF outcome.ok /\ decode_tx_bytes(outcome.val).ok
                          THEN Append(tsigned, decode_tx_bytes(outcome.val).val)
                          ELSE tsigned
            /\ trpc' = IF outcome.ok THEN trpc ELSE Append(trpc, trpc[Len(trpc)])
    /\ tpc' = "done"
    /\ UNCHANGED <<trade, tcall, tfee, xreq, xresp, xret, notTrade>>

\* The answer to the construction call arrives: the ? after request and
\* sign_transaction (trade.rs:49-50, 79-80, 99-100, 123-124).
ConstructionAnswer ==
    /\ tpc = "build"
    /\ \E answer \in ConstructionAnswers :
        LET outcome == request("Value", answer)
        IN  /\ tresp' = Append(tresp, [answer |-> answer, out |-> outcome])
            /\ tret' = Some(IF outcome.ok
                            THEN sign_transaction(TradeWallet, outcome.val)
                            ELSE outcome)
            /\ tsigned' = IF outcome.ok /\ decode_tx_bytes(outcome.val).ok
                          THEN Append(tsigned, decode_tx_bytes(outcome.val).val)
                          ELSE tsigned
    /\ tpc' = "done"
    /\ UNCHANGED <<trade, tcall, tfee, trpc, xreq, xresp, xret, notTrade>>

ExecutionResult(status) ==
    JObj([digest |-> JStr("dg"),
          effects |-> JObj([status |-> status,
                            gas_used |-> JObj([computation_cost |-> JNum(1),
                                               storage_cost |-> JNum(2),
                                               storage_rebate |-> JNum(0)]),
                            transaction_digest |-> JStr("dg"),
                            mutated |-> JArr(<<>>)]),
          events |-> JArr(<<>>)])

\* Answers to sui_executeTransactionBlock: a result with a success status
\* and with a failure status, a result without effects, a result with the
\* effects under other member names, an error, an error together with a
\* result, neither, a body that is not JSON and a failed send.
ExeAnswers ==
    {HttpBody(Some(Envelope([result |-> ExecutionResult(JObj([status |-> JStr("success")]))]))),
     HttpBody(Some(Envelope([result |->
        ExecutionResult(JObj([status |-> JStr("failure"), error |-> JStr("InsufficientGas")]))]))),
     HttpBody(Some(Envelope([result |-> JObj([digest |-> JStr("dg")])]))),
     HttpBody(Some(Envelope([result |->
        JObj([digest |-> JStr("dg"),
              effects |-> JObj([status |-> JObj([status |-> JStr("success")]),
                                gasUsed |-> JObj([computationCost |-> JStr("1")]),
                                transactionDigest |-> JStr("dg")]),
              events |-> JArr(<<>>)])]))),
     HttpBody(Some(Envelope([error |-> RpcErrorValue("Invalid signature")]))),
     HttpBody(Some(Envelope([result |-> ExecutionResult(JObj([status |-> JStr("success")])),
                             error |-> RpcErrorValue("Invalid signature")]))),
     HttpBody(Some(Envelope(<<>>))),
     HttpBody(None),
     SendError}

\* The caller passes what the pipeline returned, with the wallet's public
\* key, to client.exe_transaction: lib.rs:268-277 up to the await.
ExeTransaction ==
    /\ tpc = "done"
    /\ tret.some /\ tret.val.ok
    /\ ~xreq.some
    /\ xreq' = Some(exe_transaction_request(tret.val.val[1], tret.val.val[2],
                                            get_public_key_bytes(TradeWallet)))
    /\ tpc' = "exec"
    /\ UNCHANGED <<trade, tcall, tfee, trpc, tresp, tret, tsigned, xresp, xret, notTrade>>

\* The answer to sui_executeTransactionBlock arrives: lib.rs:277.
ExeAnswer ==
    /\ tpc = "exec"
    /\ \E answer \in ExeAnswers :
        /\ xresp' = Some(answer)
        /\ xret' = Some(request("TransactionResponse", answer))
    /\ tpc' = "done"
    /\ UNCHANGED <<trade, tcall, tfee, trpc, tresp, tret, tsigned, xreq, notTrade>>

TNext ==
    \/ TradeNew \/ WithGasPayment \/ WithGasBudget
    \/ PipelineCall \/ CoinsAnswer \/ ConstructionAnswer
    \/ ExeTransaction \/ ExeAnswer

(***************************************************************************)
(* Two pipeline calls on one Trade.  The operations borrow the Trade       *)
(* (&self), so two of them can be in progress at once, their steps         *)
(* interleaved at the awaits; the builders take the Trade by value, so     *)
(* they run only while no call is in progress.                             *)
(***************************************************************************)
Tasks == {"a", "b"}

\* The operations the two callers choose from, and the construction answers
\* the node gives them.
TaskCalls ==
    {[op |-> "transfer_by_sui", args |-> [recipient |-> "0xbob", amount |-> 5]],
     [op |-> "merge_coins", args |-> [primary_coin |-> "0xc1", coin_to_merge |-> "0xc3"]]}

TaskConstructionAnswers ==
    {HttpBody(Some(Envelope([result |-> TxData(JStr("AQID"))]))),
     HttpBody(Some(Envelope([result |-> TxData(JStr("AQIDBAUG"))]))),
     HttpBody(Some(Envelope([error |-> RpcErrorValue("Insufficient gas")]))),
     SendError}

IdleTask ==
    [pc |-> "idle", call |-> NoCall, fee |-> None, rpc |-> <<>>, resp |-> <<>>,
     ret |-> None]

PInit ==
    /\ shared = Trade_new
    /\ tasks = [t \in Tasks |-> IdleTask]

AllIdle == \A t \in Tasks : tasks[t].pc = "idle"

\* Trade::new(&client, &wallet)
SharedNew ==
    /\ AllIdle
    /\ shared' = Trade_new
    /\ UNCHANGED <<tasks, notTwoCalls>>

\* trade.with_gas_payment(id)
SharedWithGasPayment ==
    /\ AllIdle
    /\ \E id \in FeeIds : shared' = with_gas_payment(shared, id)
    /\ UNCHANGED <<tasks, notTwoCalls>>

\* trade.with_gas_budget(n)
SharedWithGasBudget ==
    /\ AllIdle
    /\ \E n \in Budgets : shared' = with_gas_budget(shared, n)
    /\ UNCHANGED <<tasks, notTwoCalls>>

\* A caller invokes a pipeline operation: get_gas_payment returns the
\* configured id at once and the construction request is posted
\* (trade.rs:128-130), or get_coin_vec posts its request (trade.rs:131).
TaskCall(t) ==
    /\ tasks[t].pc = "idle"
    /\ \E call \in TaskCalls :
        tasks' = [tasks EXCEPT ![t] =
            IF shared.gas_payment.some
            THEN [pc |-> "build", call |-> call,
                  fee |-> Some(shared.gas_payment.val),
                  rpc |-> <<ConstructionRequest(call, shared, shared.gas_payment.val)>>,
                  resp |-> <<>>, ret |-> None]
            ELSE [pc |-> "coins", call |-> call, fee |-> None,
                  rpc |-> <<get_coin_vec_request(TradeWallet.address)>>,
                  resp |-> <<>>, ret |-> None]]
    /\ UNCHANGED <<shared, notTwoCalls>>

\* TaskCoinsAnswer, with the resolved fee resource stored in the Trade.
TaskCoinsAnswer_Caching(t) ==
    /\ tasks[t].pc = "coins"
    /\ \E answer \in CoinAnswers :
        LET outcome == request("VecCoin", answer)
            gas_payment == GasPaymentFromCoins(outcome)
            task == tasks[t]
        IN  /\ tasks' = [tasks EXCEPT ![t] =
                IF gas_payment.some
                THEN [pc |-> "build", call |-> task.call, fee |-> gas_payment,
                      rpc |-> Append(task.rpc,
                                     ConstructionRequest(task.call, shared, gas_payment.val)),
                      resp |-> Append(task.resp, [answer |-> answer, out |-> outcome]),
                      ret |-> None]
                ELSE [pc |-> "done", call |-> task.call, fee |-> None,
                      rpc |-> task.rpc,
                      resp |-> Append(task.resp, [answer |-> answer, out |-> outcome]),
                      ret |-> Some(NoGasPaymentError(task.call.op))]]
            /\ shared' = IF gas_payment.some
                         THEN with_gas_payment(shared, gas_payment.val)
                         ELSE shared
    /\ UNCHANGED notTwoCalls

\* The answer to a call's sui_getCoins arrives: trade.rs:131-134, then the
\* ok_or_else of the operation and, with a fee resource, its construction
\* request.  gas_payment is a local of the operation.
TaskCoinsAnswer(t) ==
    /\ tasks[t].pc = "coins"
    /\ \E answer \in CoinAnswers :
        LET outcome == request("VecCoin", answer)
            gas_payment == GasPaymentFromCoins(outcome)
            task == tasks[t]
        IN  tasks' = [tasks EXCEPT ![t] =
                IF gas_payment.some
                THEN [pc |-> "build", call |-> task.call, fee |-> gas_payment,
                      rpc |-> Append(task.rpc,
                                     ConstructionRequest(task.call, shared, gas_payment.val)),
                      resp |-> Append(task.resp, [answer |-> answer, out |-> outcome]),
                      ret |-> None]
                ELSE [pc |-> "done", call |-> task.call, fee |-> None,
                      rpc |-> task.rpc,
                      resp |-> Append(task.resp, [answer |-> answer, out |-> outcome]),
                      ret |-> Some(NoGasPaymentError(task.call.op))]]
    /\ UNCHANGED <<shared, notTwoCalls>>

\* The answer to a call's construction request arrives: the ? after request
\* and sign_transaction (trade.rs:49-50, 79-80, 99-100, 123-124).
TaskConstructionAnswer(t) ==
    /\ tasks[t].pc = "build"
    /\ \E answer \in TaskConstructionAnswers :
        LET outcome == request("Value", answer)
            task == tasks[t]
        IN  tasks' = [tasks EXCEPT ![t] =
                [pc |-> "done", call |-> task.call, fee |-> task.fee, rpc |-> task.rpc,
                 resp |-> Append(task.resp, [answer |-> answer, out |-> outcome]),
                 ret |-> Some(IF outcome.ok
                              THEN sign_transaction(TradeWallet, outcome.val)
                              ELSE outcome)]]
    /\ UNCHANGED <<shared, notTwoCalls>>

\* The caller takes the operation's return value; the borrow of the Trade ends.
TaskReturn(t) ==
    /\ tasks[t].pc = "done"
    /\ tasks' = [tasks EXCEPT ![t] = IdleTask]
    /\ UNCHANGED <<shared, notTwoCalls>>

PNext ==
    \/ SharedNew \/ SharedWithGasPayment \/ SharedWithGasBudget
    \/ \E t \in Tasks : TaskCall(t)
    \/ \E t \in Tasks : TaskCoinsAnswer(t)
    \/ \E t \in Tasks : TaskConstructionAnswer(t)
    \/ \E t \in Tasks : TaskReturn(t)

Init == LInit /\ WInit /\ KInit /\ TInit /\ PInit

SpecListen == Init /\ [][LNext]_vars

SpecWallet == Init /\ [][WNext]_vars

SpecKeystore == Init /\ [][KNext]_vars

SpecTrade == Init /\ [][TNext]_vars

SpecTwoCalls == Init /\ [][PNext]_vars

(***************************************************************************)
(* Listener claims.                                                        *)
(***************************************************************************)
IsClose(item) == item.some /\ item.val.ok /\ item.val.val.type = "Close"
IsTransportError(item) == item.some /\ ~item.val.ok
IsEnd(item) == ~item.some
Terminating(item) == IsClose(item) \/ IsTransportError(item) \/ IsEnd(item)

IsText(item) == item.some /\ item.val.ok /\ item.val.val.type = "Text"

\* index i holds the first terminating item of the items read
FirstTerminator(i) ==
    /\ i \in DOMAIN received
    /\ Terminating(received[i])
    /\ \A j \in 1..(i - 1) : ~Terminating(received[j])

TxKinds == {"listen_transactions", "listen_address_transactions"}

\* The frame is a text frame whose document is an object with an object member
\* params, with an object member result, with a string member digest.
CarriesStringDigest(item) ==
    /\ IsText(item)
    /\ TextTable[item.val.val.text].some
    /\ LET doc == TextTable[item.val.val.text].val
       IN  /\ doc.kind = "obj" /\ "params" \in DOMAIN doc.fields
           /\ LET p == doc.fields["params"]
              IN  /\ p.kind = "obj" /\ "result" \in DOMAIN p.fields
                  /\ LET r == p.fields["result"]
                     IN  /\ r.kind = "obj" /\ "digest" \in DOMAIN r.fields
                         /\ r.fields["digest"].kind = "str"

StringDigest(item) ==
    TextTable[item.val.val.text].val.fields["params"].fields["result"].fields["digest"].str

\* The frame is a text frame that decodes as JSON.
DecodesAsJson(item) == IsText(item) /\ TextTable[item.val.val.text].some

\* A frame the operation is to invoke the callback for, and with what.
Qualifies(kind, item) ==
    IF kind \in TxKinds THEN CarriesStringDigest(item) ELSE DecodesAsJson(item)

QualifyingArg(kind, item) ==
    IF kind \in TxKinds THEN StringDigest(item) ELSE TextTable[item.val.val.text].val

\* the callback invocations begun so far: the completed ones, then the running one
Invoked == IF cbArg.some THEN Append(calls, cbArg.val) ELSE calls

NumQualifying(kind) ==
    Cardinality({i \in DOMAIN received : Qualifies(kind, received[i])})

\* C1: in each of the three listen operations, whatever frames came before, when
\* the first terminating item read is a Close frame the call has returned Ok(()),
\* and when it is a transport error the call has returned Err(SuiError::WebSocket)
\* carrying that error: the two return values differ.
C1_TerminationDiscriminated ==
    \A i \in DOMAIN received :
        FirstTerminator(i) =>
            /\ IsClose(received[i]) =>
                    lpc = "done" /\ lret = Some(Ok(Unit))
            /\ IsTransportError(received[i]) =>
                    /\ lpc = "done" /\ lret.some /\ ~lret.val.ok
                    /\ lret.val = Err("WebSocket", received[i].val.msg)
                    /\ lret # Some(Ok(Unit))

\* C1 witness: listen_events has returned the error of a transport failure that
\* followed two other frames.
C1_Witness ==
    /\ lkind = "listen_events"
    /\ Len(received) = 3
    /\ IsTransportError(received[3])
    /\ lpc = "done"
    /\ lret.some /\ ~lret.val.ok

\* C2: in listen_transactions and listen_address_transactions the callback is
\* invoked for a frame exactly when the frame is a text frame that decodes as JSON
\* and carries a string at params.result.digest; after any other non-terminating
\* frame no callback runs, nothing has been returned and the loop is still reading.
C2_CallbackIffStringDigest ==
    lkind \in TxKinds =>
        /\ Len(Invoked) = NumQualifying(lkind)
        /\ received # <<>> =>
            LET last == received[Len(received)]
            IN  /\ CarriesStringDigest(last) =>
                    /\ Invoked # <<>>
                    /\ Invoked[Len(Invoked)] = StringDigest(last)
                    /\ lpc \in {"callback", "streaming"}
                    /\ ~lret.some
                /\ (~CarriesStringDigest(last) /\ ~Terminating(last)) =>
                    /\ lpc = "streaming"
                    /\ ~cbArg.some
                    /\ ~lret.some

\* C2 witness: under the address filter, a frame without the shape was discarded
\* and a later frame with a digest reached the callback.
C2_Witness ==
    /\ lkind = "listen_address_transactions"
    /\ Len(received) = 3
    /\ IsText(received[1]) /\ ~CarriesStringDigest(received[1])
    /\ ~IsText(received[2]) /\ ~Terminating(received[2])
    /\ CarriesStringDigest(received[3])
    /\ calls = <<StringDigest(received[3])>>
    /\ lpc = "streaming"

RECURSIVE ExpectedArgs(_, _)
\* the arguments of the qualifying frames of items, in order, up to the first
\* terminating item
ExpectedArgs(kind, items) ==
    IF items = <<>> \/ Terminating(Head(items)) THEN <<>>
    ELSE IF Qualifies(kind, Head(items))
         THEN <<QualifyingArg(kind, Head(items))>> \o ExpectedArgs(kind, Tail(items))
         ELSE ExpectedArgs(kind, Tail(items))

\* C3: in each listen operation the callback invocations are, in order and one for
\* one, the qualifying frames read before the terminating item; while a callback
\* runs, the frame it is for is the last one read (the next frame is read only
\* after it completes); and once the call has returned no callback is running and
\* the completed invocations are all of them.
C3_CallbacksInArrivalOrder ==
    lkind \in ListenKinds =>
        /\ Invoked = ExpectedArgs(lkind, received)
        /\ cbArg.some =>
            /\ lpc = "callback"
            /\ Qualifies(lkind, received[Len(received)])
            /\ cbArg.val = QualifyingArg(lkind, received[Len(received)])
        /\ lpc = "done" => ~cbArg.some /\ calls = ExpectedArgs(lkind, received)

\* C3 witness: listen_events has returned after two callbacks with different
\* payloads.
C3_Witness ==
    /\ lkind = "listen_events"
    /\ lpc = "done"
    /\ Len(calls) = 2
    /\ calls[1] # calls[2]
    /\ Len(received) = 3

(***************************************************************************)
(* Pipeline claims.                                                        *)
(***************************************************************************)
ConstructionMethods == {ConstructionMethod(op) : op \in PipelineOps}
Constructions == {i \in 1..Len(trpc) : trpc[i].method \in ConstructionMethods}
CoinQueries == {i \in 1..Len(trpc) : trpc[i].method = "sui_getCoins"}

\* No fee resource is configured and the node has answered the coin query
\* with an empty list.
NoFeeAndNoCoins ==
    /\ ~trade.gas_payment.some
    /\ Len(tresp) >= 1
    /\ tresp[1].out = Ok(<<>>)

NoGasPaymentKind(op) == IF op = "transfer_by_sui" THEN "Transaction" ELSE "CallContract"

\* C4 (as stated): when no fee resource is configured and the sender owns no
\* coin, the operation fails with the no-gas-payment error and has issued zero
\* remote calls.
C4_NoFeeFailsWithoutRemoteCall ==
    NoFeeAndNoCoins =>
        /\ tret.some /\ ~tret.val.ok
        /\ tret.val.msg = "No gas payment available"
        /\ Len(trpc) = 0

\* C4 (amended): when no fee resource is configured and the coin query is
\* answered with an empty list, the operation fails with "No gas payment
\* available" (kind Transaction in transfer_by_sui, CallContract in the other
\* three) having issued exactly one remote call, the sui_getCoins query, and
\* no construction call.
C4_NoFeeFailsAfterTheQueryAlone ==
    NoFeeAndNoCoins =>
        /\ tpc = "done"
        /\ tret = Some(Err(NoGasPaymentKind(tcall.op), "No gas payment available"))
        /\ trpc = <<RpcRequest("sui_getCoins",
                               <<JStr(TradeWallet.address), JStr("0x2::sui::SUI")>>)>>
        /\ Constructions = {}

C4_Witness ==
    /\ NoFeeAndNoCoins
    /\ tcall.op = "merge_coins"
    /\ tret.some

\* The place of the fee resource id in a construction request.
FeeParam(req) ==
    IF req.method = "unsafe_transferObject"
    THEN req.params[2]
    ELSE req.params[Len(req.params) - 1]

BudgetParam(req) == req.params[Len(req.params)]

\* The ids of the coins in the list the node returned for the first request.
ReturnedFirstCoin ==
    tresp[1].answer.json.val.fields.result.items[1].fields.coin_object_id

\* C5: with a fee resource id set by with_gas_payment, exactly that id and the
\* configured budget as a decimal string are in the construction call's
\* parameters and sui_getCoins is never called; with none set, the id used is
\* that of the first entry of the coin list returned for the sender.
C5_FeeResolution ==
    \A i \in Constructions :
        IF trade.gas_payment.some
        THEN /\ FeeParam(trpc[i]) = JStr(trade.gas_payment.val)
             /\ BudgetParam(trpc[i]) = JStr(ToString(trade.gas_budget))
             /\ \E j \in 1..Len(trpc[i].params) :
                    trpc[i].params[j] = JStr(trade.gas_payment.val)
             /\ \E j \in 1..Len(trpc[i].params) :
                    trpc[i].params[j] = JStr(ToString(trade.gas_budget))
             /\ CoinQueries = {}
        ELSE /\ CoinQueries = {1}
             /\ i = 2
             /\ Len(tresp) >= 1
             /\ tresp[1].out.ok
             /\ Len(tresp[1].out.val) >= 1
             /\ FeeParam(trpc[i]) = ReturnedFirstCoin

C5_Witness ==
    /\ trade.gas_payment = Some("0xfee1")
    /\ trade.gas_budget = DefaultGasBudget
    /\ Constructions # {}
    /\ \A i \in Constructions :
          /\ FeeParam(trpc[i]) = JStr("0xfee1")
          /\ BudgetParam(trpc[i]) = JStr("1000")
    /\ tret.some /\ tret.val.ok

\* The operation-specific arguments of a call, in the order of its signature.
OperationArguments(call) ==
    CASE call.op = "transfer_by_sui" ->
            <<JStr(ToString(call.args.amount)), JStr(call.args.recipient)>>
      [] call.op = "call_contract_function" ->
            <<JStr(call.args.package_object_id), JStr(call.args.module),
              JStr(call.args.function),
              JArr(StrValues(call.args.type_arguments, 1)),
              JArr(call.args.arguments)>>
      [] call.op = "merge_coins" ->
            <<JStr(call.args.primary_coin), JStr(call.args.coin_to_merge)>>
      [] call.op = "split_coin" ->
            <<JStr(call.args.coin_object_id),
              JArr(AmountValues(call.args.split_amounts, 1))>>

\* C6 (as stated): every construction request lists the sender address first,
\* the resolved fee resource id second, then the operation's arguments, and
\* the fee budget last.
C6_SenderFeeArgumentsBudget ==
    \A i \in Constructions :
        trpc[i].params =
            <<JStr(TradeWallet.address), JStr(tfee.val)>>
                \o OperationArguments(tcall)
                \o <<JStr(ToString(trade.gas_budget))>>

\* C6 (amended): every construction request lists the sender address first and
\* the fee budget last; transfer_by_sui lists the resolved fee resource id
\* second, before its arguments, while call_contract_function, merge_coins and
\* split_coin list it second to last, after their arguments.
C6_SenderFirstBudgetLastFeePerOperation ==
    \A i \in Constructions :
        /\ trpc[i].method = ConstructionMethod(tcall.op)
        /\ trpc[i].params =
            IF tcall.op = "transfer_by_sui"
            THEN <<JStr(TradeWallet.address), JStr(tfee.val)>>
                    \o OperationArguments(tcall)
                    \o <<JStr(ToString(trade.gas_budget))>>
            ELSE <<JStr(TradeWallet.address)>>
                    \o OperationArguments(tcall)
                    \o <<JStr(tfee.val), JStr(ToString(trade.gas_budget))>>

C6_Witness ==
    /\ tcall.op = "call_contract_function"
    /\ Len(tcall.args.arguments) = 2
    /\ Constructions # {}
    /\ \A i \in Constructions :
          /\ Len(trpc[i].params) = 8
          /\ trpc[i].params[7] = JStr(tfee.val)
          /\ trpc[i].params[2] = JStr("0x2")

\* The response type request is called with for the i-th request.
ResponseType(i) == IF trpc[i].method = "sui_getCoins" THEN "VecCoin" ELSE "Value"

\* The i-th answer is a body that decodes as a response envelope.
DecodedEnvelope(i) ==
    /\ tresp[i].answer.type = "body"
    /\ tresp[i].answer.json.some
    /\ Deserialize_RpcResponse(ResponseType(i), tresp[i].answer.json.val).ok

EnvelopeOf(i) == Deserialize_RpcResponse(ResponseType(i), tresp[i].answer.json.val).val

ErrorPresent(i) == OptionField(tresp[i].answer.json.val, "error").some
ResultPresent(i) == OptionField(tresp[i].answer.json.val, "result").some

\* C8: request maps every decoded response envelope to exactly one outcome:
\* Err(Rpc) with the error's message whenever an error is present, even with a
\* result; Ok(result) when a result is present and no error; Err(Rpc) when
\* both are absent; and it never returns Ok without a result.
C8_EnvelopeOutcome ==
    \A i \in 1..Len(tresp) :
        /\ DecodedEnvelope(i) =>
            /\ ErrorPresent(i) =>
                  tresp[i].out = Err("Rpc", EnvelopeOf(i).error.val.message)
            /\ (~ErrorPresent(i) /\ ResultPresent(i)) =>
                  tresp[i].out = Ok(EnvelopeOf(i).result.val)
            /\ (~ErrorPresent(i) /\ ~ResultPresent(i)) =>
                  tresp[i].out = Err("Rpc", "No result in response")
        /\ tresp[i].out.ok => (DecodedEnvelope(i) /\ ResultPresent(i))

C8_Witness ==
    \E i \in 1..Len(tresp) :
        /\ DecodedEnvelope(i)
        /\ ErrorPresent(i) /\ ResultPresent(i)
        /\ tresp[i].out = Err("Rpc", "Insufficient gas")

(***************************************************************************)
(* Custody claims.                                                         *)
(***************************************************************************)
\* C7: for a wallet made by Wallet::new or Wallet::from_private_key and any
\* message m, verify_signature(m, sign(m)) returns Ok(true).
C7_SignThenVerify ==
    (/\ wres.op = "verify_signature"
     /\ wres.signature = Wallet_sign(wallet.val, wres.message))
        => wres.out = Ok(TRUE)

PublicKeys == {create_public_key(k) : k \in RandomKeys}

\* C9: the Debug output of an Ed25519KeyPair, a Wallet or a Keystore is the same
\* for two values that differ only in the private key or in a stored secret.
C9_DebugIndependentOfSecrets ==
    /\ \A k1 \in RandomKeys, k2 \in RandomKeys, pub \in PublicKeys :
          /\ Debug_Ed25519KeyPair([private_key |-> k1, public_key |-> pub])
                = Debug_Ed25519KeyPair([private_key |-> k2, public_key |-> pub])
          /\ Debug_Wallet([address |-> address_from_public_key_bytes(pub),
                           keypair |-> [private_key |-> k1, public_key |-> pub]])
                = Debug_Wallet([address |-> address_from_public_key_bytes(pub),
                                keypair |-> [private_key |-> k2, public_key |-> pub]])
    /\ kres.op = "debug" =>
          \A a \in DOMAIN keystore.keys, sec \in StoreSecrets :
              Debug_Keystore(add_key(keystore, a, sec), kres.order) = kres.out

\* C10: verify_signature returns Err only for a signature that is not 64 bytes
\* long (or a public key that is not 32 bytes long); for every wallet and every
\* 64-byte signature it returns Ok(true) or Ok(false).
C10_VerifyErrOnlyOnLength ==
    wres.op = "verify_signature" =>
        (~wres.out.ok <=>
            (Len(wres.signature) # SIG_LEN \/ Len(get_public_key_bytes(wallet.val)) # KEY_LEN))

\* The addresses for which get_key returns a secret.
Stored(ks) == {a \in StoreAddresses : get_key(ks, a).some}

\* What one add_key / remove_key does to the answers of get_key and len.
KeystoreStepOK ==
    /\ kres'.op = "add_key" =>
        /\ get_key(keystore', kres'.address) = Some(kres'.private_key)
        /\ \A b \in StoreAddresses \ {kres'.address} :
              get_key(keystore', b) = get_key(keystore, b)
        /\ Keystore_len(keystore') =
              IF get_key(keystore, kres'.address).some
              THEN Keystore_len(keystore)
              ELSE Keystore_len(keystore) + 1
    /\ kres'.op = "remove_key" =>
        /\ get_key(keystore', kres'.address) = None
        /\ \A b \in StoreAddresses \ {kres'.address} :
              get_key(keystore', b) = get_key(keystore, b)
        /\ ~get_key(keystore, kres'.address).some => keystore' = keystore
    /\ kres'.op \in {"get_key", "list_addresses", "len", "debug"} => keystore' = keystore
    /\ Keystore_len(keystore') = Cardinality(Stored(keystore'))
    /\ is_empty(keystore') <=> Stored(keystore') = {}
    /\ \A o \in IterationOrders(keystore') :
          /\ \A i, j \in 1..Len(list_addresses(keystore', o)) :
                i # j => list_addresses(keystore', o)[i] # list_addresses(keystore', o)[j]
          /\ {list_addresses(keystore', o)[i] : i \in 1..Len(list_addresses(keystore', o))}
                = Stored(keystore')

\* C11: every add_key / remove_key keeps the store equal to a reference map:
\* add_key(a, s) makes get_key(a) return s, leaves every other address alone
\* and changes len only for a new address; remove_key(a) makes get_key(a)
\* return None, leaves the others alone and changes nothing for an absent
\* address; list_addresses holds each stored address exactly once and len is
\* the number of stored addresses.
C11_KeystoreIsAMap == [][KeystoreStepOK]_vars

C11_Witness ==
    /\ kres.op = "remove_key"
    /\ ~kres.out.some
    /\ Keystore_len(keystore) = 1
    /\ \E a \in Stored(keystore) : get_key(keystore, a) = Some("secret2")

\* The (address, secret) pairs of a keystore.
Pairs(ks) == {<<a, ks.keys[a]>> : a \in DOMAIN ks.keys}

\* C12: for every reachable keystore, load_from_file after save_to_file on
\* the same path yields a keystore with exactly the (address, secret) pairs of
\* the saved one, whatever the order the map was written in; a load that fails
\* (the file is missing or its content is malformed) returns Err(Io) or
\* Err(Json) and yields no keystore.
C12_SaveLoadRoundTrip ==
    /\ \A o \in IterationOrders(keystore) :
          LET loaded == load_from_file(Some(to_string_pretty(keystore, o)))
          IN  loaded.ok /\ Pairs(loaded.val) = Pairs(keystore)
    /\ (/\ kres.op = "save_to_file" /\ kres.out.ok
        /\ kfile = Some(to_string_pretty(keystore, kres.order))) =>
          /\ load_from_file(kfile).ok
          /\ Pairs(load_from_file(kfile).val) = Pairs(keystore)
    /\ kres.op = "load_from_file" =>
          /\ ~kres.file.some => (~kres.out.ok /\ kres.out.kind = "Io")
          /\ ~kres.out.ok =>
                /\ kres.out.kind \in {"Io", "Json"}
                /\ "val" \notin DOMAIN kres.out
          /\ kres.out.ok => keystore = kres.out.val

C12_Witness ==
    /\ kres.op = "load_from_file"
    /\ kres.out = Ok(keystore)
    /\ Keystore_len(keystore) = 2
    /\ kfile = Some(to_string_pretty(keystore, <<"0xdef", "0xabc">>))
    /\ get_key(keystore, "0xdef") = Some("secret2")

\* C13: from_private_key returns Err(InvalidPrivateKey) exactly when the input
\* is not 32 bytes long; for 32 bytes the stored private key is the input and
\* the public key and the address are the functions of it that generate and
\* Wallet::new use, so the same bytes always give the same address.
C13_FromPrivateKey ==
    wres.op = "from_private_key" =>
        /\ ~wres.out.ok <=> Len(wres.input) # 32
        /\ ~wres.out.ok => wres.out.kind = "InvalidPrivateKey"
        /\ ~KeyPair_from_private_key(wres.input).ok <=> Len(wres.input) # 32
        /\ wres.out.ok =>
            /\ wres.out.val.keypair.private_key = wres.input
            /\ wres.out.val.keypair = generate(wres.input).val
            /\ wres.out.val.keypair = KeyPair_from_private_key(wres.input).val
            /\ wres.out.val.keypair.public_key = Sha3_256(wres.input)
            /\ wres.out.val.address
                  = "0x" \o hex_encode(Sha3_256(Sha3_256(wres.input)))
            /\ wres.out.val = Wallet_new(wres.input).val
            /\ wallet = Some(wres.out.val)

C13_Witness ==
    /\ wres.op = "from_private_key"
    /\ wres.input = KeyBytes(2, KEY_LEN)
    /\ wres.out.ok
    /\ wallet.val.address = Wallet_new(KeyBytes(2, KEY_LEN)).val.address

(***************************************************************************)
(* Execution claims.                                                       *)
(***************************************************************************)
\* The answer to exe_transaction is a body that decodes as an envelope.
ExeDecoded ==
    /\ xresp.val.type = "body"
    /\ xresp.val.json.some
    /\ Deserialize_RpcResponse("TransactionResponse", xresp.val.json.val).ok

ExeErrorPresent == OptionField(xresp.val.json.val, "error").some
ExeResultPresent == OptionField(xresp.val.json.val, "result").some

\* The execution status the node put in the result.
ExeStatusSent == xresp.val.json.val.fields.result.fields.effects.fields.status.fields.status.str

\* C14: exe_transaction returns Ok with the result whenever the decoded
\* envelope carries a result (and no error), whatever the execution status in
\* it; it returns Err only for a failed send, a body that does not decode,
\* an envelope with an error and an envelope with neither member, so a
\* rejection on chain (Ok, status failure) differs from every such failure.
C14_ExecutionResultReturned ==
    xret.some =>
        /\ (ExeDecoded /\ ExeResultPresent /\ ~ExeErrorPresent) =>
              /\ xret.val.ok
              /\ xret.val.val.effects.status.status = ExeStatusSent
        /\ xret.val.ok => (ExeDecoded /\ ExeResultPresent /\ ~ExeErrorPresent)
        /\ ~xret.val.ok =>
              \/ /\ xret.val.kind = "HttpRequest"
                 /\ ~ExeDecoded
              \/ /\ xret.val.kind = "Rpc"
                 /\ ExeDecoded
                 /\ ExeErrorPresent \/ ~ExeResultPresent

C14_Witness ==
    /\ xret.some
    /\ xret.val.ok
    /\ xret.val.val.effects.status.status = "failure"
    /\ ExeStatusSent = "failure"

(***************************************************************************)
(* Listener claims, continued.                                             *)
(***************************************************************************)
\* C15: a listen call opens at most one connection and sends exactly one
\* message on it, the subscription request, after the connection is open and
\* before any inbound frame is consumed; afterwards it sends nothing more
\* and it opens no second connection after Close or a transport error.
C15_OneConnectionOneMessage ==
    /\ conns <= 1
    /\ Len(sent) <= 1
    /\ sent # <<>> => (conns = 1 /\ sent = <<SubscriptionRequest(lkind)>>)
    /\ lpc \in {"streaming", "callback"} => Len(sent) = 1
    /\ received # <<>> => Len(sent) = 1
    /\ (lpc = "done" /\ received # <<>>) => (conns = 1 /\ Len(sent) = 1)

C15_Witness ==
    /\ lpc = "done"
    /\ Len(received) = 3
    /\ IsClose(received[3])
    /\ IsText(received[1])
    /\ conns = 1
    /\ sent = <<SubscriptionRequest("listen_events")>>

\* C16: if opening the connection fails, or sending the subscription request
\* fails, the listen call returns an error at once: it never streams, no
\* inbound frame is read and the callback is never invoked.
C16_SetupFailureIsTerminal ==
    /\ (lpc = "done" /\ sent = <<>>) =>
          /\ lret.some /\ ~lret.val.ok
          /\ lret.val.kind = "WebSocket"
          /\ received = <<>>
          /\ calls = <<>>
          /\ ~cbArg.some
    /\ (lpc \in {"streaming", "callback"} \/ received # <<>> \/ calls # <<>>) =>
          (conns = 1 /\ Len(sent) = 1)
    /\ (lpc = "done" /\ conns = 0) => lret = Some(Err("WebSocket", "connect failed"))
    /\ (lpc = "done" /\ conns = 1 /\ sent = <<>>) =>
          lret = Some(Err("WebSocket", "send failed"))

C16_Witness ==
    /\ lpc = "done"
    /\ conns = 1
    /\ sent = <<>>
    /\ lret = Some(Err("WebSocket", "send failed"))
    /\ received = <<>>

\* The item is a text frame that decodes as JSON and has no params member.
DecodesWithoutParams(item) ==
    /\ DecodesAsJson(item)
    /\ ~ValueGet(TextTable[item.val.val.text].val, "params").some

\* C17: in all three listen operations, listen_events included, a text frame
\* that decodes as JSON but has no params member (such as the response that
\* acknowledges the subscription) is discarded without a callback.
C17_NonNotificationDiscarded ==
    (received # <<>> /\ DecodesWithoutParams(received[Len(received)])) =>
        /\ lpc = "streaming"
        /\ ~cbArg.some

(***************************************************************************)
(* Pipeline claims, continued.                                             *)
(***************************************************************************)
\* The construction call has been answered with a result.
ConstructionResult ==
    /\ Constructions # {}
    /\ Len(tresp) = Len(trpc)
    /\ tresp[Len(tresp)].out.ok

TransactionData == tresp[Len(tresp)].out.val

HasStringTxBytes ==
    /\ TransactionData.kind = "obj"
    /\ "txBytes" \in DOMAIN TransactionData.fields
    /\ TransactionData.fields.txBytes.kind = "str"

TxBytesString == TransactionData.fields.txBytes.str

\* C18: if the construction response has no string txBytes member the
\* operation fails with "No txBytes in response", and if txBytes is not valid
\* base64 it fails with the decode error; in both cases wallet.sign is never
\* called and no (bytes, signature) pair is returned.
C18_BadTxBytesNeverSigned ==
    ConstructionResult =>
        /\ ~HasStringTxBytes =>
              /\ tret = Some(Err("Transaction", "No txBytes in response"))
              /\ tsigned = <<>>
        /\ (HasStringTxBytes /\ ~base64_decode(B64Chars[TxBytesString]).ok) =>
              /\ tret.some /\ ~tret.val.ok
              /\ tret.val.kind = "Sign"
              /\ tret.val.msg = "Failed to decode txBytes: "
                                  \o base64_decode(B64Chars[TxBytesString]).msg
              /\ tsigned = <<>>
        /\ (tret.some /\ ~tret.val.ok) => tsigned = <<>>

C18_Witness ==
    /\ ConstructionResult
    /\ HasStringTxBytes
    /\ TxBytesString = "A!ID"
    /\ tret = Some(Err("Sign", "Failed to decode txBytes: Invalid byte"))
    /\ tsigned = <<>>

\* C19: for every construction response whose txBytes decodes, the returned
\* transaction bytes are the base64 decoding of txBytes, the returned
\* signature is wallet.sign of exactly those bytes, and exe_transaction of the
\* returned bytes sends a first parameter equal to the original txBytes.
C19_PayloadRoundTrip ==
    (/\ ConstructionResult /\ HasStringTxBytes
     /\ base64_decode(B64Chars[TxBytesString]).ok) =>
        LET bytes == base64_decode(B64Chars[TxBytesString]).val
        IN  /\ tret = Some(Ok(<<bytes, Wallet_sign(TradeWallet, bytes)>>))
            /\ tsigned = <<bytes>>
            /\ base64_encode(tret.val.val[1]) = TxBytesString
            /\ xreq.some =>
                  /\ xreq.val.method = "sui_executeTransactionBlock"
                  /\ xreq.val.params[1] = JStr(TxBytesString)
                  /\ xreq.val.params[2] = JStr("Ed25519")
                  /\ xreq.val.params[3] = JStr(base64_encode(tret.val.val[2]))

C19_Witness ==
    /\ ConstructionResult
    /\ HasStringTxBytes
    /\ TxBytesString = "AQIDBAUG"
    /\ tret.some /\ tret.val.ok
    /\ tret.val.val[1] = <<1, 2, 3, 4, 5, 6>>
    /\ xreq.some
    /\ xreq.val.params[1] = JStr("AQIDBAUG")

\* C20: in every reachable Trade configuration the fee budget is a positive
\* integer, so no construction call is ever issued with a budget of 0.
C20_BudgetPositive ==
    /\ trade.gas_budget > 0
    /\ \A i \in Constructions : BudgetParam(trpc[i]) # JStr("0")

\* The steps of the pipeline call that have been answered with a failure: a
\* request whose outcome is an error, or a coin query answered with no coin.
FailedSteps ==
    {i \in 1..Len(tresp) :
        \/ ~tresp[i].out.ok
        \/ trpc[i].method = "sui_getCoins" /\ tresp[i].out.val = <<>>}

\* C21: the remote calls of one pipeline operation are at most one
\* sui_getCoins query, issued first and only when no fee resource is
\* configured, followed by at most one construction call;
\* sui_executeTransactionBlock is never among them, no request is issued
\* twice, and after a failed step no further request is issued, nothing is
\* signed and the operation has returned an error.
C21_CallsInOrderNoRetry ==
    /\ Len(trpc) <= 2
    /\ \A i \in 1..Len(trpc) :
          /\ trpc[i].method # "sui_executeTransactionBlock"
          /\ i \in CoinQueries \cup Constructions
    /\ CoinQueries \subseteq {1}
    /\ CoinQueries # {} => ~trade.gas_payment.some
    /\ Cardinality(Constructions) <= 1
    /\ \A i \in Constructions : i = Len(trpc)
    /\ \A i, j \in 1..Len(trpc) : i # j => trpc[i] # trpc[j]
    /\ Len(tresp) <= Len(trpc)
    /\ \A i \in FailedSteps :
          /\ Len(trpc) = i
          /\ Len(tresp) = i
          /\ tpc = "done"
          /\ tret.some /\ ~tret.val.ok
          /\ tsigned = <<>>
          /\ ~xreq.some

\* C21 witness: the coin query was answered with a coin, the construction
\* call with an error, and the operation has returned that error.
C21_Witness ==
    /\ Len(trpc) = 2
    /\ CoinQueries = {1}
    /\ Constructions = {2}
    /\ FailedSteps = {2}
    /\ tret = Some(Err("Rpc", "Insufficient gas"))
    /\ tpc = "done"

\* C22: sign(message) returns exactly 64 bytes; the first 32 are the raw
\* private key, the same for every message, and the last 32 are the SHA3-256
\* hash of the message, the same for every private key, so the result is a
\* function of (private key, message) alone.
C22_SignIsKeyThenHash ==
    wres.op = "sign" =>
        /\ Len(wres.out) = 64
        /\ SubSeq(wres.out, 1, 32) = wallet.val.keypair.private_key
        /\ SubSeq(wres.out, 33, 64) = Sha3_256(wres.message)
        /\ wres.out = wallet.val.keypair.private_key \o Sha3_256(wres.message)
        /\ \A m \in Messages_ToSign :
              SubSeq(Wallet_sign(wallet.val, m), 1, 32) = SubSeq(wres.out, 1, 32)
        /\ \A k \in RandomKeys :
              SubSeq(Wallet_sign(Wallet_from_private_key(k).val, wres.message), 33, 64)
                  = SubSeq(wres.out, 33, 64)

\* C22 witness: the wallet made from the third key has signed <<1, 2, 3>>.
C22_Witness ==
    /\ wres.op = "sign"
    /\ wres.message = <<1, 2, 3>>
    /\ wallet.val.keypair.private_key = KeyBytes(3, KEY_LEN)
    /\ Len(wres.out) = 64

\* The private key of the wallet the Trade signs with, and whether a byte
\* string carries it as a contiguous run.
PrivateKey == TradeWallet.keypair.private_key

ContainsKey(bytes) ==
    \E i \in 1..(Len(bytes) - KEY_LEN + 1) :
        SubSeq(bytes, i, i + KEY_LEN - 1) = PrivateKey

\* The texts the private key is readable from.
KeyTexts == {hex_encode(PrivateKey), "0x" \o hex_encode(PrivateKey),
             base64_encode(PrivateKey)}

\* The byte strings whose base64 text is the signature parameter of the
\* posted sui_executeTransactionBlock request.
SentSignatures ==
    IF xreq.some /\ tret.some /\ tret.val.ok
    THEN {b \in {tret.val.val[2]} : xreq.val.params[3] = JStr(base64_encode(b))}
    ELSE {}

\* C23: the private key never leaves the process: no construction call
\* parameter is a text of it, the signature a pipeline operation returns does
\* not contain it, the signature parameter of sui_executeTransactionBlock is
\* not the encoding of bytes that contain it, and no error message is a text
\* of it.
C23_PrivateKeyNeverLeaves ==
    /\ \A i \in 1..Len(trpc) : \A j \in 1..Len(trpc[i].params) :
          \A t \in KeyTexts : trpc[i].params[j] # JStr(t)
    /\ (tret.some /\ tret.val.ok) => ~ContainsKey(tret.val.val[2])
    /\ \A b \in SentSignatures : ~ContainsKey(b)
    /\ (tret.some /\ ~tret.val.ok) => tret.val.msg \notin KeyTexts
    /\ (xret.some /\ ~xret.val.ok) => xret.val.msg \notin KeyTexts

\* The operation has failed at fee resolution: the coin query was the only
\* request and the operation returned the error of its ok_or_else.
MissingFeeFailure ==
    /\ tpc = "done"
    /\ CoinQueries = {1}
    /\ Constructions = {}
    /\ Len(tresp) = 1
    /\ tret = Some(NoGasPaymentError(tcall.op))

\* The kinds of a missing txBytes member, of txBytes that does not decode,
\* of a failed send, of an undecodable body and of an error-bearing response.
OtherFailureKinds ==
    {sign_transaction(TradeWallet, JObj([digest |-> JStr("dg")])).kind,
     sign_transaction(TradeWallet, TxData(JStr("A!ID"))).kind,
     request("Value", SendError).kind,
     request("Value", HttpBody(None)).kind,
     request("Value", HttpBody(Some(Envelope([error |-> RpcErrorValue("e")])))).kind}

\* C24: all four pipeline operations report a missing fee resource with one
\* and the same error kind, and that kind differs from the kinds of a missing
\* txBytes member, a malformed encoding and transport or protocol failures.
C24_MissingFeeHasItsOwnKind ==
    MissingFeeFailure =>
        /\ \A op \in PipelineOps : tret.val.kind = NoGasPaymentError(op).kind
        /\ tret.val.kind \notin OtherFailureKinds

\* No fee resource is configured and the coin query has failed: the send
\* failed or the response carried an error.
CoinQueryFailed ==
    /\ CoinQueries = {1}
    /\ Len(tresp) >= 1
    /\ \/ tresp[1].answer = SendError
       \/ tresp[1].answer = HttpBody(Some(Envelope([error |-> RpcErrorValue("Invalid params")])))

\* C25: when no fee resource is configured and the coin query fails with a
\* transport failure or an error-bearing response, the operation returns that
\* failure, of kind HttpRequest or Rpc, and not the missing-fee-resource error.
C25_CoinQueryFailureSurfaces ==
    CoinQueryFailed =>
        /\ ~tresp[1].out.ok
        /\ tret = Some(tresp[1].out)
        /\ tret.val.kind \in {"HttpRequest", "Rpc"}
        /\ tret # Some(NoGasPaymentError(tcall.op))

\* The call has written its subscription request, so the read loop has begun.
Subscribed == sent # <<>>

\* C26: a listen call that has subscribed has returned exactly when the last
\* item read is a Close frame, a transport error or the end of the stream;
\* nothing is read after such an item; and a stream that ends without a Close
\* frame makes the call return Ok(()), the value a Close frame gives.
C26_TerminatesExactlyOnCloseErrorOrEnd ==
    /\ ~Subscribed => received = <<>>
    /\ Subscribed =>
          (lpc = "done" <=>
              (received # <<>> /\ Terminating(received[Len(received)])))
    /\ \A i \in DOMAIN received :
          /\ Terminating(received[i]) => i = Len(received)
          /\ IsClose(received[i]) => lret = Some(Ok(Unit))
          /\ IsEnd(received[i]) => lret = Some(Ok(Unit))
          /\ IsTransportError(received[i]) => lret # Some(Ok(Unit))
    /\ (lpc = "done" /\ Subscribed) => lret.some

\* C26 witness: the stream ended after two frames, neither a Close frame, and
\* the call has returned Ok(()).
C26_Witness ==
    /\ lpc = "done"
    /\ Len(received) = 3
    /\ IsEnd(received[3])
    /\ ~Terminating(received[1]) /\ ~Terminating(received[2])
    /\ \A i \in DOMAIN received : ~IsClose(received[i])
    /\ lret = Some(Ok(Unit))

(***************************************************************************)
(* Two calls on one Trade.                                                 *)
(***************************************************************************)
TaskConstructions(t) ==
    {i \in 1..Len(tasks[t].rpc) : tasks[t].rpc[i].method \in ConstructionMethods}

\* The id of the first coin in the list the node returned to the call.
TaskFirstCoin(t) ==
    tasks[t].resp[1].answer.json.val.fields.result.items[1].fields.coin_object_id

\* Each call in progress on a Trade without a configured fee resource has
\* posted its own sui_getCoins first, and its construction request carries the
\* first coin of the list it was answered with; two calls answered with the
\* same list carry the same coin, in requests that differ when the operations
\* differ.
EachCallResolvesAnew ==
    ~shared.gas_payment.some =>
        /\ \A t \in Tasks :
              tasks[t].pc # "idle" =>
                  /\ tasks[t].rpc[1] = get_coin_vec_request(TradeWallet.address)
                  /\ \A i \in TaskConstructions(t) :
                        /\ i = 2
                        /\ FeeParam(tasks[t].rpc[i]) = TaskFirstCoin(t)
        /\ \A t, u \in Tasks :
              (/\ t # u
               /\ TaskConstructions(t) # {} /\ TaskConstructions(u) # {}
               /\ tasks[t].resp[1].out = tasks[u].resp[1].out) =>
                  /\ FeeParam(tasks[t].rpc[2]) = FeeParam(tasks[u].rpc[2])
                  /\ tasks[t].fee = tasks[u].fee
                  /\ tasks[t].call # tasks[u].call => tasks[t].rpc[2] # tasks[u].rpc[2]

\* A step of a pipeline call leaves the Trade as it was.
CallLeavesTradeAlone == tasks' # tasks => shared' = shared

\* C27: no step of a pipeline operation changes the Trade's gas_payment or
\* gas_budget, so a fee resource resolved for one call is not kept for the
\* next; two calls on the same Trade without a configured fee resource, one
\* after the other or interleaved, each query the coin list, and when both are
\* answered with the same list both put its first coin in their construction
\* requests.
C27_FeeResolutionStateless ==
    []EachCallResolvesAnew /\ [][CallLeavesTradeAlone]_vars

\* C27 witness: two different operations are in progress at once on a Trade
\* without a configured fee resource, both were answered with the same
\* two-coin list and both have posted a construction request with its first
\* coin.
C27_Witness ==
    /\ ~shared.gas_payment.some
    /\ tasks["a"].pc = "build" /\ tasks["b"].pc = "build"
    /\ tasks["a"].call.op = "transfer_by_sui" /\ tasks["b"].call.op = "merge_coins"
    /\ tasks["a"].resp[1].out = tasks["b"].resp[1].out
    /\ Len(tasks["a"].resp[1].out.val) = 2
    /\ FeeParam(tasks["a"].rpc[2]) = JStr("0xc2")
    /\ FeeParam(tasks["b"].rpc[2]) = JStr("0xc2")

====
